---- MODULE Spec2Model ----
(***************************************************************************)
(* HexAuth: the license ledger (apps/licenses/models.py), the subscription *)
(* tracker (apps/subscriptions/models.py) and the API helpers              *)
(* (apps/api/utils.py), as a state machine over the stored rows, the       *)
(* in-memory model instances that the methods act on, and the clock.       *)
(*                                                                         *)
(* A Django model instance is a copy of its row: a method reads the        *)
(* instance's fields and save(update_fields=[...]) writes only the named   *)
(* columns back.  Nullable fields are <<>> (None) or <<v>>.                *)
(***************************************************************************)
EXTENDS Integers, Sequences, FiniteSets, TLC

VARIABLES
    now,        \* the wall clock, timezone.now()
    licenses,   \* table licenses: [LicenseIds -> row]
    plans,      \* table subscriptions (plans): set of [app, name, level]
    grants,     \* table user_subscriptions: sequence of rows, in creation order
    att,        \* redemption requests in flight: [Attempts -> ...]
    lic_copy,   \* License instances held by callers: [AdminHandles -> <<>> or <<row>>]
    sub_copy,   \* UserSubscription instances held by callers
    pauseLog,   \* per grant: the last pause that took effect (when it ended, expires_at then)
    lastOp,     \* the operation the last step performed
    lastReq,    \* the request the last call of an API view served, as it arrived
    opLog,      \* history: the operations performed on the tracked grant, with their clock reads
    applications, \* table applications: [Apps -> row]; read-only for the core
    sessions,   \* table application_sessions: sequence of rows, in creation order
    init_req,   \* init requests in flight: [Clients -> ...]
    cache,      \* the rate-limit entries of the cache: [IPs -> <<>> or <<[value, expires]>>]
    rl_req,     \* requests inside the rate limiter: [Workers -> ...]
    rateLog,    \* history per IP: start of the current hour of requests, and their number
    vpn_cache,  \* the vpn_check entries of the cache: [IPs -> <<>> or <<[value, expires]>>]
    blacklists  \* table blacklists: set of [app, hwid, ip_address]; read-only for the core

\* The session manager and the abuse guard.
authVars == <<applications, sessions, init_req, cache, rl_req, rateLog, vpn_cache, blacklists>>

vars == <<now, licenses, plans, grants, att, lic_copy, sub_copy, pauseLog, lastOp, lastReq,
          opLog, applications, sessions, init_req, cache, rl_req, rateLog, vpn_cache,
          blacklists>>

---------------------------------------------------------------------------
(* Bounds of the model *)

MaxTime == 3
NAttempts == 2
NAdminHandles == 1
NSubHandles == 1
MaxGrants == 2
MaxDuration == 2
NRacers == 2
MaxOps == 3
NClients == 2
MaxSessions == 2
NWorkers == 2
MaxHalfWindows == 3
MaxCount == 2
MaxMaskLen == 3
MaxPlainLen == 17
MaxEntries == 2
MaxHeadroom == 6

\* Constants of the program
VpnCacheSeconds == 3600
BlockSize == 16
RateLimit == 100
Window == 3600

---------------------------------------------------------------------------
(* Data *)

Null == <<>>
Some(v) == <<v>>
Val(o) == o[1]

\* Python truthiness of an optional str / timedelta: None, "" and
\* timedelta(0) are falsy; every other value, negative durations included, is truthy.
TruthyStr(o) == o # Null /\ Val(o) # ""
TruthyDelta(o) == o # Null /\ Val(o) # 0

NOT_USED == "not_used"
USED == "used"
BANNED == "banned"

Apps == {"A", "B"}
Users == {"u1", "u2"}
KeyStrings == {"K1", "K2"}
Reasons == {"License banned"}

\* A license is identified by (application, key): unique_together.
\* No application holds the key string K2.
LicenseIds == {<<a, "K1">> : a \in Apps}

Attempts == 1..NAttempts
AdminHandles == 1..NAdminHandles
SubHandles == 1..NSubHandles
Durations == 0..MaxDuration

\* Plans: unique on (name, application), not on level.
PlanUniverse ==
    { [app |-> "A", name |-> "P1", level |-> "1"],
      [app |-> "A", name |-> "P2", level |-> "1"],
      [app |-> "A", name |-> "P1", level |-> "2"],
      [app |-> "B", name |-> "P1", level |-> "1"] }

UniqueTogether(ps) ==
    \A p, q \in ps : (p.app = q.app /\ p.name = q.name) => p = q

NewLicense(d) ==
    [ status |-> NOT_USED, level |-> "1", expires_seconds |-> d,
      used_at |-> Null, used_by |-> Null, ban_reason |-> Null ]

\* Each request slot is the client of one end user.
UserOf(a) == IF a % 2 = 1 THEN "u1" ELSE "u2"

IdleAttempt == [ pc |-> "idle", app |-> "A", key |-> "K1", user |-> "u1" ]

NoOp == [ op |-> "none" ]

\* The handles of the concurrent operations on one grant.
Racers == 1..NRacers

Clients == 1..NClients
Workers == 1..NWorkers
IPs == {"ip1", "ip2"}
Credentials == {"c1", "c2"}

\* secrets.token_hex(16): the values a draw can return.
SessionIds == {"s1", "s2"}

\* Application rows: the fields that init reads.
DefaultApplication ==
    [ is_banned |-> FALSE, is_enabled |-> TRUE, is_paused |-> FALSE,
      current_version |-> "1.0", hash_check_enabled |-> FALSE,
      file_hash |-> Null, vpn_block_enabled |-> FALSE,
      session_expiry_seconds |-> 2, download_url |-> Some("https://dl") ]

AppConfigs ==
    { DefaultApplication,
      [DefaultApplication EXCEPT !.session_expiry_seconds = 1],
      [DefaultApplication EXCEPT !.is_banned = TRUE],
      [DefaultApplication EXCEPT !.is_enabled = FALSE],
      [DefaultApplication EXCEPT !.is_paused = TRUE],
      [DefaultApplication EXCEPT !.hash_check_enabled = TRUE, !.file_hash = Some("h1")],
      [DefaultApplication EXCEPT !.vpn_block_enabled = TRUE],
      [DefaultApplication EXCEPT !.is_banned = TRUE, !.is_enabled = FALSE, !.is_paused = TRUE],
      [DefaultApplication EXCEPT !.is_enabled = FALSE, !.is_paused = TRUE],
      [DefaultApplication EXCEPT !.hash_check_enabled = TRUE, !.file_hash = Some("h1"),
                                 !.vpn_block_enabled = TRUE] }

IdleInit == [ pc |-> "idle" ]
IdleWorker == [ pc |-> "idle" ]

---------------------------------------------------------------------------
(* apps/api/utils.py: create_user_subscription *)

\* Mutant of PlansFor: the plan is looked up by level alone.
PlansForAnyApp(app, level) == { p \in plans : p.level = level }

\* Subscription.objects.get(application=..., level=...): the matching rows.
PlansFor(app, level) == { p \in plans : p.app = app /\ p.level = level }

\* QuerySet.get: DoesNotExist on no row (caught, returns (False, message)),
\* the row on exactly one, MultipleObjectsReturned (not caught) on several.
GetPlanOutcome(app, level) ==
    CASE PlansFor(app, level) = {} -> "no_plan"
      [] Cardinality(PlansFor(app, level)) = 1 -> "created"
      [] OTHER -> "raised"

ThePlan(app, level) == CHOOSE p \in PlansFor(app, level) : TRUE

\* expires_at = timezone.now() + timedelta(seconds=license_obj.expires_seconds)
GrantExpiry(t, lic) == t + lic.expires_seconds

\* UserSubscription.objects.create(...): is_paused and paused_time_remaining
\* take their field defaults.
NewGrant(user, lic, app, key, t) ==
    [ user |-> user, app |-> app, plan |-> ThePlan(app, lic.level).name,
      expires_at |-> GrantExpiry(t, lic), is_paused |-> FALSE,
      paused_time_remaining |-> Null, license_key |-> key ]

\* The table after create_user_subscription(user, license_obj, application) at time t.
GrantsAfter(user, lic, app, key, t) ==
    IF GetPlanOutcome(app, lic.level) = "created"
    THEN Append(grants, NewGrant(user, lic, app, key, t))
    ELSE grants

\* A direct call of create_user_subscription on a stored license.
CreateUserSubscription(user, id) ==
    /\ id \in DOMAIN licenses
    /\ Len(grants) < MaxGrants
    /\ grants' = GrantsAfter(user, licenses[id], id[1], id[2], now)
    /\ pauseLog' = IF Len(grants') > Len(grants) THEN Append(pauseLog, Null) ELSE pauseLog
    /\ lastOp' = [ op |-> "grant", user |-> user, id |-> id,
                   outcome |-> GetPlanOutcome(id[1], licenses[id].level) ]
    /\ UNCHANGED <<now, licenses, plans, att, lic_copy, sub_copy>>
    /\ UNCHANGED <<lastReq, authVars>>

---------------------------------------------------------------------------
(* apps/api/utils.py: get_user_subscriptions *)

\* The rows matched by filter(user, application, expires_at__gt=t, is_paused=False),
\* in table order.
ActiveRows(user, app, t) ==
    SelectSeq([i \in 1..Len(grants) |-> i],
              LAMBDA i : /\ grants[i].user = user
                         /\ grants[i].app = app
                         /\ grants[i].expires_at > t
                         /\ ~grants[i].is_paused)

\* sub.subscription.level: the level of the plan the grant references.
PlanLevel(app, name) == (CHOOSE p \in plans : p.app = app /\ p.name = name).level

\* The dictionary appended for a row, with t the value of timezone.now() that
\* the loop body reads; int(...total_seconds()) of a whole number of seconds
\* is that number.
ListEntry(g, t) ==
    [ subscription |-> g.plan, key |-> g.license_key, expiry |-> g.expires_at,
      timeleft |-> g.expires_at - t, level |-> PlanLevel(g.app, g.plan) ]

\* get_user_subscriptions(user, application): the filter reads the clock at
\* now, the k-th pass of the loop reads it at tm[k]; time may pass in between.
GetUserSubscriptions(user, app) ==
    LET rows == ActiveRows(user, app, now) IN
    \E tm \in [1..MaxGrants -> now..MaxTime] :
       /\ \A k \in 1..MaxGrants :
             /\ k > 1 => tm[k] >= tm[k - 1]
             /\ k > Len(rows) => tm[k] = IF k = 1 THEN now ELSE tm[k - 1]
       /\ now' = tm[MaxGrants]
       /\ lastOp' = [ op |-> "list", user |-> user, app |-> app, rows |-> rows,
                      result |-> [k \in 1..Len(rows) |-> ListEntry(grants[rows[k]], tm[k])] ]
       /\ UNCHANGED <<licenses, plans, grants, att, lic_copy, sub_copy, pauseLog>>
       /\ UNCHANGED <<opLog, lastReq, authVars>>

---------------------------------------------------------------------------
(* License redemption (consume): the handler registered for 'license' *)

\* The status test of the lookup: what a redemption answers for a status.
ConsumeReject(status) ==
    CASE status = USED -> "AlreadyUsed"
      [] status = BANNED -> "Banned"
      [] OTHER -> "none"

\* Mutant of CasApplies: an unconditional update.
CasAppliesAlways(id) == TRUE

\* The conditional update: it applies only to a row that is still NOT_USED.
CasApplies(id) == licenses[id].status = NOT_USED

\* The grants made from a license key of an application.
GrantsOf(id) ==
    { i \in 1..Len(grants) : grants[i].app = id[1] /\ grants[i].license_key = id[2] }

\* Step 1: look the key up, scoped to the application, and test its status.
ConsumeLookup(a, app, key) ==
    /\ att[a].pc = "idle"
    /\ LET id == <<app, key>>
           user == UserOf(a)
           res == IF id \notin DOMAIN licenses THEN "NotFound"
                  ELSE ConsumeReject(licenses[id].status)
       IN /\ att' = IF res = "none"
                    THEN [att EXCEPT ![a] =
                            [ pc |-> "txn", app |-> app, key |-> key, user |-> user ]]
                    ELSE att
          /\ lastOp' = [ op |-> "lookup", a |-> a, id |-> id, result |-> res,
                         afterUnban |-> (lastOp = [ op |-> "unban", id |-> id ]) ]
    /\ UNCHANGED <<now, licenses, plans, grants, lic_copy, sub_copy, pauseLog>>
    /\ UNCHANGED <<opLog, lastReq, authVars>>

\* Step 2: one transaction: check-and-set NOT_USED -> USED, then the grant;
\* a grant that fails or raises rolls the status change back.
ConsumeCommit(a) ==
    /\ att[a].pc = "txn"
    /\ LET id == <<att[a].app, att[a].key>>
           lic == licenses[id]
           out == GetPlanOutcome(id[1], lic.level)
           res == IF ~CasApplies(id)
                  THEN (IF lic.status = BANNED THEN "Banned" ELSE "AlreadyUsed")
                  ELSE CASE out = "created" -> "Success"
                         [] out = "no_plan" -> "NoPlanForLevel"
                         [] OTHER -> "Error"
       IN /\ res = "Success" => Len(grants) < MaxGrants
          /\ att' = [att EXCEPT ![a] = IdleAttempt]
          /\ IF res = "Success"
             THEN /\ licenses' = [licenses EXCEPT ![id] =
                        [@ EXCEPT !.status = USED, !.used_at = Some(now),
                                  !.used_by = Some(att[a].user)]]
                  /\ grants' = GrantsAfter(att[a].user, lic, id[1], id[2], now)
                  /\ pauseLog' = Append(pauseLog, Null)
             ELSE UNCHANGED <<licenses, grants, pauseLog>>
          /\ lastOp' = [ op |-> "commit", a |-> a, id |-> id, result |-> res,
                         afterUnban |-> (lastOp.op = "lookup" /\ lastOp.a = a
                                           /\ lastOp.afterUnban) ]
    /\ UNCHANGED <<now, plans, lic_copy, sub_copy>>
    /\ UNCHANGED <<opLog, lastReq, authVars>>

---------------------------------------------------------------------------
(* apps/licenses/models.py: License.ban / License.unban *)

\* License.objects.get(...): an instance holding the row's current fields.
LoadLicense(h, id) ==
    /\ id \in DOMAIN licenses
    /\ lic_copy' = [lic_copy EXCEPT ![h] = Some([ id |-> id, row |-> licenses[id] ])]
    /\ lastOp' = [ op |-> "load_license" ]
    /\ UNCHANGED <<now, licenses, plans, grants, att, sub_copy, pauseLog>>
    /\ UNCHANGED <<opLog, lastReq, authVars>>

\* save(update_fields=['status', 'ban_reason']): only these two columns are written.
SaveStatus(id, row) ==
    [licenses EXCEPT ![id] = [@ EXCEPT !.status = row.status, !.ban_reason = row.ban_reason]]

BanRow(row, reason) == [row EXCEPT !.status = BANNED, !.ban_reason = Some(reason)]

Ban(h, reason) ==
    /\ lic_copy[h] # Null
    /\ LET c == Val(lic_copy[h])
           r == BanRow(c.row, reason)
       IN /\ lic_copy' = [lic_copy EXCEPT ![h] = Some([c EXCEPT !.row = r])]
          /\ licenses' = SaveStatus(c.id, r)
          /\ lastOp' = [ op |-> "ban", id |-> c.id ]
    /\ UNCHANGED <<now, plans, grants, att, sub_copy, pauseLog>>
    /\ UNCHANGED <<opLog, lastReq, authVars>>

\* Mutant of OriginalStatus: unban restores USED whatever used_by holds.
OriginalStatusAlwaysUsed(row) == USED

\* original_status = USED if self.used_by else NOT_USED
OriginalStatus(row) == IF TruthyStr(row.used_by) THEN USED ELSE NOT_USED

UnbanRow(row) == [row EXCEPT !.status = OriginalStatus(row), !.ban_reason = Null]

Unban(h) ==
    /\ lic_copy[h] # Null
    /\ LET c == Val(lic_copy[h])
           r == UnbanRow(c.row)
       IN /\ lic_copy' = [lic_copy EXCEPT ![h] = Some([c EXCEPT !.row = r])]
          /\ licenses' = SaveStatus(c.id, r)
          /\ lastOp' = [ op |-> "unban", id |-> c.id ]
    /\ UNCHANGED <<now, plans, grants, att, sub_copy, pauseLog>>
    /\ UNCHANGED <<opLog, lastReq, authVars>>

---------------------------------------------------------------------------
(* apps/subscriptions/models.py: UserSubscription *)

\* UserSubscription.objects.get(...): an instance holding the row's current fields.
LoadSub(h, i) ==
    /\ i \in 1..Len(grants)
    /\ sub_copy' = [sub_copy EXCEPT ![h] =
          Some([ idx |-> i, expires_at |-> grants[i].expires_at,
                 is_paused |-> grants[i].is_paused,
                 paused_time_remaining |-> grants[i].paused_time_remaining ])]
    /\ lastOp' = [ op |-> "load_sub" ]
    /\ UNCHANGED <<now, licenses, plans, grants, att, lic_copy, pauseLog>>
    /\ UNCHANGED <<opLog, lastReq, authVars>>

\* is_active, with t the value of timezone.now() it reads.
IsActive(c, t) == IF c.is_paused THEN FALSE ELSE c.expires_at > t

\* time_remaining, with ta and tb the values of timezone.now() its two
\* reads return (the test on line 85, the subtraction on line 88).
TimeRemaining(c, ta, tb) ==
    IF c.is_paused /\ TruthyDelta(c.paused_time_remaining)
    THEN Val(c.paused_time_remaining)
    ELSE IF c.expires_at <= ta THEN 0 ELSE c.expires_at - tb

\* A read of the property time_remaining on an instance: the clock is read
\* at now by the test on line 85 and at tb by the subtraction on line 88,
\* which is reached only when neither earlier return is taken.
ReadTimeRemaining(h) ==
    /\ sub_copy[h] # Null
    /\ LET c == Val(sub_copy[h]) IN
       \E tb \in now..MaxTime :
          /\ ((c.is_paused /\ TruthyDelta(c.paused_time_remaining))
                \/ c.expires_at <= now) => tb = now
          /\ now' = tb
          /\ lastOp' = [ op |-> "time_remaining", h |-> h,
                         result |-> TimeRemaining(c, now, tb) ]
    /\ UNCHANGED <<licenses, plans, grants, att, lic_copy, sub_copy, pauseLog>>
    /\ UNCHANGED <<opLog, lastReq, authVars>>

\* The test of pause(), read at t1.
PauseActs(c, t1) == ~c.is_paused /\ IsActive(c, t1)

\* The instance after pause() has acted.
PauseCopy(c, ta, tb) ==
    [c EXCEPT !.paused_time_remaining = Some(TimeRemaining(c, ta, tb)),
              !.is_paused = TRUE]

\* pause(): the clock is read at t1 = now by is_active, then at t2 and t3 by
\* time_remaining; time may pass between the reads.  The reads that the
\* code does not reach return nothing, so they are pinned to the last one.
Pause(h) ==
    /\ sub_copy[h] # Null
    /\ LET c == Val(sub_copy[h]) IN
       \E t2 \in now..MaxTime : \E t3 \in t2..MaxTime :
          /\ ~PauseActs(c, now) => t2 = now
          /\ (~PauseActs(c, now) \/ c.expires_at <= t2) => t3 = t2
          /\ now' = t3
          /\ lastOp' = [ op |-> "pause", h |-> h, t2 |-> t2 ]
          /\ IF PauseActs(c, now)
             THEN LET n == PauseCopy(c, t2, t3) IN
                  /\ sub_copy' = [sub_copy EXCEPT ![h] = Some(n)]
                  \* save(update_fields=['is_paused', 'paused_time_remaining'])
                  /\ grants' = [grants EXCEPT
                        ![c.idx].is_paused = n.is_paused,
                        ![c.idx].paused_time_remaining = n.paused_time_remaining]
                  /\ pauseLog' = [pauseLog EXCEPT ![c.idx] =
                        Some([ t |-> t3, exp |-> c.expires_at ])]
             ELSE UNCHANGED <<sub_copy, grants, pauseLog>>
    /\ UNCHANGED <<licenses, plans, att, lic_copy>>
    /\ UNCHANGED <<lastReq, authVars>>

\* The test of unpause().
UnpauseActs(c) == c.is_paused /\ TruthyDelta(c.paused_time_remaining)

\* Mutant of UnpauseCopy: the snapshot is not cleared.
UnpauseCopyKeepsSnapshot(c, t) ==
    [c EXCEPT !.expires_at = t + Val(c.paused_time_remaining),
              !.is_paused = FALSE]

\* The instance after unpause() has acted at time t.
UnpauseCopy(c, t) ==
    [c EXCEPT !.expires_at = t + Val(c.paused_time_remaining),
              !.is_paused = FALSE,
              !.paused_time_remaining = Null]

Unpause(h) ==
    /\ sub_copy[h] # Null
    /\ LET c == Val(sub_copy[h]) IN
          /\ lastOp' = [ op |-> "unpause", h |-> h ]
          /\ IF UnpauseActs(c)
             THEN LET n == UnpauseCopy(c, now) IN
                  /\ sub_copy' = [sub_copy EXCEPT ![h] = Some(n)]
                  \* save(update_fields=['expires_at', 'is_paused', 'paused_time_remaining'])
                  /\ grants' = [grants EXCEPT
                        ![c.idx].expires_at = n.expires_at,
                        ![c.idx].is_paused = n.is_paused,
                        ![c.idx].paused_time_remaining = n.paused_time_remaining]
             ELSE UNCHANGED <<sub_copy, grants>>
    /\ UNCHANGED <<now, licenses, plans, att, lic_copy, pauseLog>>
    /\ UNCHANGED <<lastReq, authVars>>

---------------------------------------------------------------------------
(* apps/core/utils.py: check_vpn_proxy *)

\* What the external lookup can do: answer 200 with the proxy or hosting flag
\* set ("proxy") or with neither ("clean"), answer with another status
\* ("status"), or raise: a connection error or the 5 s timeout ("raise").
VpnLookups == {"proxy", "clean", "status", "raise"}

\* cache.get(cache_key) at time t: the verdict of a live entry, else None.
VpnCacheGet(ip, t) ==
    IF vpn_cache[ip] # Null /\ Val(vpn_cache[ip]).expires > t
    THEN Some(Val(vpn_cache[ip]).value)
    ELSE Null

\* Whether check_vpn_proxy(ip) at time t calls the external service.
VpnLooksUp(ip, t) == VpnCacheGet(ip, t) = Null

\* Mutant of VpnAnswer: a lookup that fails counts as a VPN.
VpnAnswerFailClosed(lookup) == lookup # "clean"

\* The verdict after a lookup: is_vpn of a 200 answer, False after any
\* other status and in the except branch.
VpnAnswer(lookup) == lookup = "proxy"

\* The value check_vpn_proxy(ip) returns at time t.
CheckVpnResult(ip, lookup, t) ==
    IF VpnCacheGet(ip, t) # Null THEN Val(VpnCacheGet(ip, t)) ELSE VpnAnswer(lookup)

\* Mutant of VpnCaches: every verdict is stored, a failed lookup included.
VpnCachesAlways(lookup) == TRUE

\* Only the verdict of a 200 answer reaches cache.set.
VpnCaches(lookup) == lookup \in {"proxy", "clean"}

\* The cache after check_vpn_proxy(ip) at time t: cache.set(cache_key, is_vpn, 3600).
VpnCacheAfter(ip, lookup, t) ==
    IF VpnLooksUp(ip, t) /\ VpnCaches(lookup)
    THEN [vpn_cache EXCEPT ![ip] =
            Some([ value |-> VpnAnswer(lookup), expires |-> t + VpnCacheSeconds ])]
    ELSE vpn_cache

\* A call of check_vpn_proxy(ip).
CheckVpnProxy(ip, lookup) ==
    /\ vpn_cache' = VpnCacheAfter(ip, lookup, now)
    /\ lastOp' = [ op |-> "check_vpn", ip |-> ip, lookup |-> lookup,
                   looked_up |-> VpnLooksUp(ip, now),
                   result |-> CheckVpnResult(ip, lookup, now) ]
    /\ UNCHANGED <<now, licenses, plans, grants, att, lic_copy, sub_copy, pauseLog>>
    /\ UNCHANGED <<opLog, lastReq, applications, sessions, init_req, cache, rl_req, rateLog,
                   blacklists>>

---------------------------------------------------------------------------
(* apps/api/views.py: BaseAPIView.error_response / success_response *)

\* Response({'success': False, 'message': message}, status=400)
ErrorResponse(message) ==
    [ status |-> 400, kind |-> "json", success |-> FALSE, message |-> message,
      download |-> Null ]

\* Response({'success': True, 'message': message, ...})
SuccessResponse(message) ==
    [ status |-> 200, kind |-> "json", success |-> TRUE, message |-> message,
      download |-> Null ]

\* An exception no handler catches: the framework answers 500, nothing of the
\* body is built by the view.
Raised ==
    [ status |-> 500, kind |-> "raised", success |-> FALSE, message |-> "",
      download |-> Null ]

\* Response("HexAUTH_Invalid", status=400): the body is a bare string.
TextResponse(text) ==
    [ status |-> 400, kind |-> "text", success |-> FALSE, message |-> text,
      download |-> Null ]

\* ApplicationSettings: the messages a tenant configures, at their defaults.
AppSettings ==
    [ app_disabled_msg |-> "This application is disabled",
      paused_app_msg |-> "Application is currently paused, please wait for the developer to say otherwise.",
      hash_check_fail_msg |-> "This program hash does not match, make sure you're using latest version",
      vpn_blocked_msg |-> "VPNs are blocked on this application" ]

---------------------------------------------------------------------------
(* apps/api/views.py: handle_init; apps/sessions/models.py: ApplicationSession *)

\* `client_hash not in app.file_hash` is a substring test on strings.
Contains(s, sub) == <<s, sub>> \in { <<"h1", "">>, <<"h1", "h">>, <<"h1", "h1">> }

\* What a client can present besides (ownerid, name): the optional ver and
\* hash parameters ("" is the empty string), what the external lookup does if
\* check_vpn_proxy asks it about the client's IP, and whether the IP is
\* whitelisted.
Probes ==
    { [ ver |-> Null, hash |-> Null, lookup |-> "clean", whitelisted |-> FALSE ],
      [ ver |-> Some("1.0"), hash |-> Some("h1"), lookup |-> "raise", whitelisted |-> FALSE ],
      [ ver |-> Some(""), hash |-> Some("h"), lookup |-> "proxy", whitelisted |-> TRUE ],
      [ ver |-> Some("2.0"), hash |-> Null, lookup |-> "clean", whitelisted |-> FALSE ],
      [ ver |-> Null, hash |-> Some("h2"), lookup |-> "status", whitelisted |-> FALSE ],
      [ ver |-> Null, hash |-> Null, lookup |-> "proxy", whitelisted |-> FALSE ],
      [ ver |-> Some("2.0"), hash |-> Some("h2"), lookup |-> "proxy", whitelisted |-> FALSE ] }

\* Each client connects from one address.
IpOf(c) == IF c % 2 = 1 THEN "ip1" ELSE "ip2"

\* The init requests of client c: the application that (ownerid, name)
\* resolves to, if any, with one of the probes.
InitRequests(c) ==
    { [ app |-> a, ver |-> p.ver, hash |-> p.hash, ip |-> IpOf(c),
        lookup |-> p.lookup, whitelisted |-> p.whitelisted ] :
      a \in {Null} \cup { Some(x) : x \in Apps }, p \in Probes }

\* validate_application from get_application on, found being what the query
\* for (owner_id, name) returns: no application, a banned one, or "ok".
ValidateLookup(found) ==
    IF found = Null THEN "HexAUTH_Invalid"
    ELSE IF applications[Val(found)].is_banned THEN "app_banned"
    ELSE "ok"

\* Mutant of InitGateBeforeVpn: the version is checked before the status.
InitGateVersionFirst(req) ==
    IF ValidateLookup(req.app) # "ok" THEN ValidateLookup(req.app)
    ELSE LET app == applications[Val(req.app)] IN
         IF TruthyStr(req.ver) /\ Val(req.ver) # app.current_version
              THEN "invalidver"
         ELSE IF ~app.is_enabled THEN "app_disabled_msg"
         ELSE IF app.is_paused THEN "paused_app_msg"
         ELSE IF /\ app.hash_check_enabled
                 /\ TruthyStr(req.hash) /\ TruthyStr(app.file_hash)
                 /\ ~Contains(Val(app.file_hash), Val(req.hash))
              THEN "hash_check_fail_msg"
         ELSE "ok"

\* Mutant of InitGateBeforeVpn: the test of is_paused is missing.
InitGateSkipsPaused(req) ==
    IF ValidateLookup(req.app) # "ok" THEN ValidateLookup(req.app)
    ELSE LET app == applications[Val(req.app)] IN
         IF ~app.is_enabled THEN "app_disabled_msg"
         ELSE IF TruthyStr(req.ver) /\ Val(req.ver) # app.current_version
              THEN "invalidver"
         ELSE IF /\ app.hash_check_enabled
                 /\ TruthyStr(req.hash) /\ TruthyStr(app.file_hash)
                 /\ ~Contains(Val(app.file_hash), Val(req.hash))
              THEN "hash_check_fail_msg"
         ELSE "ok"

\* The checks of handle_init before the VPN gate, in the order of the code:
\* the first one that fails, or "ok".
InitGateBeforeVpn(req) ==
    IF ValidateLookup(req.app) # "ok" THEN ValidateLookup(req.app)
    ELSE LET app == applications[Val(req.app)] IN
         IF ~app.is_enabled THEN "app_disabled_msg"
         ELSE IF app.is_paused THEN "paused_app_msg"
         ELSE IF TruthyStr(req.ver) /\ Val(req.ver) # app.current_version
              THEN "invalidver"
         ELSE IF /\ app.hash_check_enabled
                 /\ TruthyStr(req.hash) /\ TruthyStr(app.file_hash)
                 /\ ~Contains(Val(app.file_hash), Val(req.hash))
              THEN "hash_check_fail_msg"
         ELSE "ok"

\* `app.vpn_block_enabled and check_vpn_proxy(ip)`: the function is called
\* only when the earlier checks passed and the application blocks VPNs.
VpnReached(req) ==
    InitGateBeforeVpn(req) = "ok" /\ applications[Val(req.app)].vpn_block_enabled

\* The checks of handle_init before the session is created, in the order of
\* the code: the first one that fails, or "ok".
InitGate(req) ==
    IF InitGateBeforeVpn(req) # "ok" THEN InitGateBeforeVpn(req)
    ELSE IF /\ VpnReached(req)
            /\ CheckVpnResult(req.ip, req.lookup, now)
            /\ ~req.whitelisted
         THEN "vpn_blocked_msg"
    ELSE "ok"

\* The response handle_init returns for a check that failed.
GateResponse(result, app) ==
    CASE result = "HexAUTH_Invalid" -> TextResponse("HexAUTH_Invalid")
      [] result = "app_banned" ->
            ErrorResponse("This application has been banned from HexAUTH for violating terms.")
      [] result = "invalidver" ->
            [ ErrorResponse("invalidver") EXCEPT
                !.download = applications[Val(app)].download_url ]
      [] OTHER -> ErrorResponse(AppSettings[result])

\* The session ids stored in the table.
StoredIds == { sessions[i].session_id : i \in 1..Len(sessions) }

\* ApplicationSession.objects.create(application, ip_address, expires_at):
\* the other fields take their defaults.
NewSession(r) ==
    [ session_id |-> r.session_id, app |-> r.app, credential |-> Null,
      is_validated |-> FALSE, ip_address |-> r.ip, expires_at |-> r.expires_at ]

\* handle_init up to the INSERT: the checks, expires_at from the clock, and
\* generate_session_id, whose loop draws tokens until one is not in the
\* table (first: the first draw; sid: the draw the loop returns).
HandleInitBegin(c, req) ==
    /\ init_req[c].pc = "idle"
    /\ vpn_cache' = IF VpnReached(req) THEN VpnCacheAfter(req.ip, req.lookup, now)
                    ELSE vpn_cache
    /\ IF InitGate(req) # "ok"
       THEN /\ lastOp' = [ op |-> "init", result |-> InitGate(req), sid |-> Null,
                           response |-> GateResponse(InitGate(req), req.app) ]
            /\ UNCHANGED init_req
       ELSE /\ Len(sessions) + Cardinality({ d \in Clients : init_req[d].pc = "insert" })
                 < MaxSessions
            /\ \E first \in SessionIds, sid \in SessionIds \ StoredIds :
                  /\ first \notin StoredIds => sid = first
                  /\ init_req' = [init_req EXCEPT ![c] =
                        [ pc |-> "insert", app |-> Val(req.app), ip |-> req.ip,
                          t |-> now,
                          expires_at |-> now + applications[Val(req.app)].session_expiry_seconds,
                          session_id |-> sid ]]
                  /\ lastOp' = [ op |-> "generate", retried |-> (first \in StoredIds) ]
    /\ UNCHANGED <<now, licenses, plans, grants, att, lic_copy, sub_copy, pauseLog>>
    /\ UNCHANGED <<opLog, applications, sessions, cache, rl_req, rateLog, blacklists>>

\* Mutant of InsertFails: no unique index on session_id.
InsertFailsNever(sid) == FALSE

\* session_id is unique=True: the INSERT of a stored id raises IntegrityError.
InsertFails(sid) == sid \in StoredIds

\* handle_init from the INSERT (super().save()) on: the row is stored and its
\* id returned, or the INSERT raises and the request ends in an error.
HandleInitInsert(c) ==
    /\ init_req[c].pc = "insert"
    /\ LET r == init_req[c] IN
       IF InsertFails(r.session_id)
       THEN /\ lastOp' = [ op |-> "init", result |-> "IntegrityError", sid |-> Null,
                           response |-> Raised ]
            /\ UNCHANGED sessions
       ELSE /\ sessions' = Append(sessions, NewSession(r))
            /\ lastOp' = [ op |-> "init", c |-> c, result |-> "ok",
                           t |-> r.t, sid |-> Some(r.session_id),
                           response |-> SuccessResponse("Initialized") ]
    /\ init_req' = [init_req EXCEPT ![c] = IdleInit]
    /\ UNCHANGED <<now, licenses, plans, grants, att, lic_copy, sub_copy, pauseLog>>
    /\ UNCHANGED <<opLog, lastReq, applications, cache, rl_req, rateLog, vpn_cache, blacklists>>

---------------------------------------------------------------------------
(* apps/api/views.py: validate_application, MainAPIView.post, InitializeView.post *)

\* The ownerid parameters a request can carry: none, the empty string, one
\* of 5 and one of 12 characters, and a well-formed one of 10.
OwnerIds == { Null, Some(""), Some("a1b2c"), Some("a1b2c3d4e5f6"), Some("a1b2c3d4e5") }

\* The name parameters a request can carry.
AppNames == { Null, Some(""), Some("myapp") }

\* Mutant of OwnerIdMalformed: the length is not tested.
OwnerIdMalformedNever(owner_id) == FALSE

\* if len(owner_id) != 10
OwnerIdMalformed(owner_id) == Len(owner_id) # 10

\* validate_application before get_application: the parameter checks, in
\* the order of the code; "lookup" when the application is then looked up.
ValidateParams(raw) ==
    IF ~TruthyStr(raw.ownerid) THEN "no_ownerid"
    ELSE IF ~TruthyStr(raw.name) THEN "no_name"
    ELSE IF OwnerIdMalformed(Val(raw.ownerid)) THEN "bad_ownerid"
    ELSE "lookup"

\* The messages of the parameter checks.
ParamMessage(result) ==
    CASE result = "no_ownerid" ->
            "No OwnerID specified. Select app & copy code snippet from HexAUTH dashboard."
      [] result = "no_name" ->
            "No app name specified. Select app & copy code snippet from HexAUTH dashboard."
      [] result = "bad_ownerid" -> "OwnerID should be 10 characters long."

\* validate_application: the first check that fails, or "ok"; raw.found is
\* what get_application returns for (ownerid, name) if it is called.
ValidateApplication(raw) ==
    IF ValidateParams(raw) # "lookup" THEN ValidateParams(raw)
    ELSE ValidateLookup(raw.found)

\* The error response of validate_application.
ValidateResponse(result) ==
    IF result \in {"no_ownerid", "no_name", "bad_ownerid"}
    THEN ErrorResponse(ParamMessage(result))
    ELSE GateResponse(result, Null)

\* The request as handle_init sees it once the parameters are accepted.
ReqOf(raw) ==
    [ app |-> raw.found, ver |-> raw.ver, hash |-> raw.hash, ip |-> raw.ip,
      lookup |-> raw.lookup, whitelisted |-> raw.whitelisted ]

\* handlers = {...}: the dispatch table of MainAPIView.post.
Handlers ==
    [ init |-> "handle_init", register |-> "handle_register", login |-> "handle_login",
      license |-> "handle_license", upgrade |-> "handle_upgrade", check |-> "handle_check",
      log |-> "handle_log", var |-> "handle_var", setvar |-> "handle_setvar",
      getvar |-> "handle_getvar", file |-> "handle_file", webhook |-> "handle_webhook",
      ban |-> "handle_ban", checkblacklist |-> "handle_checkblacklist",
      chatget |-> "handle_chatget", chatsend |-> "handle_chatsend",
      fetchOnline |-> "handle_fetchonline", changeUsername |-> "handle_changeusername" ]

\* The handlers whose body is `pass`: they return None.
StubHandlers == { "handle_register", "handle_login" }

\* The type tags a request can carry: none, the empty string, tags that are
\* not in the table, and the tags of the table.
TypeTags == { Null, Some(""), Some("logout"), Some("Init") } \cup { Some(t) : t \in DOMAIN Handlers }

\* A request as it arrives: the type tag, ownerid and name, what
\* get_application returns for them if it is called (found), and a probe.
MkRaw(type, ownerid, name, found, p, ip) ==
    [ type |-> type, ownerid |-> ownerid, name |-> name, found |-> found,
      ver |-> p.ver, hash |-> p.hash, lookup |-> p.lookup,
      whitelisted |-> p.whitelisted, ip |-> ip ]

\* The requests of client c: init requests with well-formed parameters and
\* every probe, init requests with every combination of ownerid and name, and
\* a well-formed request under every type tag.
PostRequests(c) ==
    LET found == {Null} \cup { Some(x) : x \in Apps }
        plain == CHOOSE p \in Probes : p.ver = Null /\ p.hash = Null /\ p.lookup = "clean"
    IN  { MkRaw(Some("init"), Some("a1b2c3d4e5"), Some("myapp"), f, p, IpOf(c)) :
            f \in found, p \in Probes }
        \cup { MkRaw(Some("init"), o, n, f, plain, IpOf(c)) :
                 o \in OwnerIds, n \in AppNames, f \in found }
        \cup { MkRaw(t, Some("a1b2c3d4e5"), Some("myapp"), Some("A"), plain, IpOf(c)) :
                 t \in TypeTags }

\* handle_init on a request as it arrives: a parameter check that fails ends
\* it before the application is looked up.
HandleInit(c, raw) ==
    IF ValidateParams(raw) # "lookup"
    THEN /\ init_req[c].pc = "idle"
         /\ lastOp' = [ op |-> "init", result |-> ValidateParams(raw), sid |-> Null,
                        response |-> ValidateResponse(ValidateParams(raw)) ]
         /\ UNCHANGED <<now, licenses, plans, grants, att, lic_copy, sub_copy, pauseLog>>
         /\ UNCHANGED <<opLog, authVars>>
    ELSE HandleInitBegin(c, ReqOf(raw))

\* A request that ends without touching any state.
Answer(handler, response) ==
    /\ lastOp' = [ op |-> "post", handler |-> handler, response |-> response ]
    /\ UNCHANGED <<now, licenses, plans, grants, att, lic_copy, sub_copy, pauseLog>>
    /\ UNCHANGED <<opLog, authVars>>

\* A handler of the table that src/ does not hold: it hands back a
\* structured response, a failure or a success; what it does to the tables
\* is modelled by the ledger and session operations, not here.
HandleMissing(handler) ==
    \E ok \in BOOLEAN :
       Answer(Some(handler), IF ok THEN SuccessResponse("done") ELSE ErrorResponse("failed"))

\* Mutant of Dispatch: every tag but the empty one reaches a handler.
DispatchDefaultsToInit(type) ==
    IF type \in DOMAIN Handlers THEN Some(Handlers[type]) ELSE Some("handle_init")

\* handlers.get(request_type): the handler of the tag, or None.
Dispatch(type) == IF type \in DOMAIN Handlers THEN Some(Handlers[type]) ELSE Null

\* MainAPIView.post. A view that returns None makes the framework raise
\* (it asserts that a Response is returned).
Post(c, raw) ==
    /\ lastReq' = Some(raw)
    /\ IF ~TruthyStr(raw.type) THEN Answer(Null, ErrorResponse("No type specified"))
       ELSE LET handler == Dispatch(Val(raw.type)) IN
            IF handler = Null THEN Answer(Null, ErrorResponse("Unhandled Type"))
            ELSE IF Val(handler) = "handle_init" THEN HandleInit(c, raw)
            ELSE IF Val(handler) \in StubHandlers THEN Answer(handler, Raised)
            ELSE HandleMissing(Val(handler))

\* InitializeView.post goes on after validate_application alone.
InitializeAccepts(raw) == ValidateApplication(raw) = "ok"

\* InitializeView.post: validate_application, then success_response("Initialized").
InitializePost(raw) ==
    /\ lastReq' = Some(raw)
    /\ lastOp' = [ op |-> "initialize",
                   response |-> IF InitializeAccepts(raw)
                                THEN SuccessResponse("Initialized")
                                ELSE ValidateResponse(ValidateApplication(raw)) ]
    /\ UNCHANGED <<now, licenses, plans, grants, att, lic_copy, sub_copy, pauseLog>>
    /\ UNCHANGED <<opLog, authVars>>

---------------------------------------------------------------------------
(* apps/api/utils.py: validate_session *)

\* Mutant of SessionMatches: the expiry test admits the boundary.
SessionMatchesAtBoundary(row, sid, app, t) ==
    row.session_id = sid /\ row.app = app /\ row.expires_at >= t

\* Mutant of SessionMatches: the lookup is not scoped to the application.
SessionMatchesAnyApp(row, sid, app, t) ==
    row.session_id = sid /\ row.expires_at > t

\* get(session_id=session_id, application=application, expires_at__gt=t)
SessionMatches(row, sid, app, t) ==
    row.session_id = sid /\ row.app = app /\ row.expires_at > t

\* ApplicationSession.is_expired: timezone.now() > self.expires_at
SessionIsExpired(row, t) == t > row.expires_at

\* ApplicationSession.is_active: self.is_validated and not self.is_expired
SessionIsActive(row, t) == row.is_validated /\ ~SessionIsExpired(row, t)

MatchingSessions(sid, app, t) ==
    { i \in 1..Len(sessions) : SessionMatches(sessions[i], sid, app, t) }

\* validate_session(session_id, application): the session, or None when no
\* row matches (DoesNotExist); get() raises when several rows match.
ValidateSession(sid, app) ==
    /\ LET m == MatchingSessions(sid, app, now) IN
       lastOp' = [ op |-> "validate", sid |-> sid, app |-> app,
                   outcome |-> CASE m = {} -> "none"
                                 [] Cardinality(m) = 1 -> "session"
                                 [] OTHER -> "raised",
                   session |-> IF Cardinality(m) = 1
                               THEN Some(sessions[CHOOSE i \in m : TRUE])
                               ELSE Null ]
    /\ UNCHANGED <<now, licenses, plans, grants, att, lic_copy, sub_copy, pauseLog>>
    /\ UNCHANGED <<opLog, lastReq, authVars>>

---------------------------------------------------------------------------
(* Session binding: the step of login / license / register that validates a session *)

\* Mutant of BindAccepts: a validated session takes any credential.
BindAcceptsAlways(row, cred) == TRUE

\* A session is bound once; the same credential again is accepted.
BindAccepts(row, cred) == ~row.is_validated \/ row.credential = Some(cred)

Bind(sid, cred) ==
    /\ \E i \in 1..Len(sessions) :
          /\ sessions[i].session_id = sid
          /\ IF BindAccepts(sessions[i], cred)
             THEN /\ sessions' = [sessions EXCEPT ![i].is_validated = TRUE,
                                                  ![i].credential = Some(cred)]
                  /\ lastOp' = [ op |-> "bind", sid |-> sid, cred |-> cred,
                                 result |-> "bound" ]
             ELSE /\ UNCHANGED sessions
                  /\ lastOp' = [ op |-> "bind", sid |-> sid, cred |-> cred,
                                 result |-> "rejected" ]
    /\ UNCHANGED <<now, licenses, plans, grants, att, lic_copy, sub_copy, pauseLog>>
    /\ UNCHANGED <<opLog, lastReq, applications, init_req, cache, rl_req, rateLog, vpn_cache, blacklists>>

---------------------------------------------------------------------------
(* apps/core/middleware.py: SecurityMiddleware.process_request *)

\* cache.get(rate_key, 0) at time t: the stored value of a live entry, else 0.
CacheGet(ip, t) ==
    IF cache[ip] # Null /\ Val(cache[ip]).expires > t THEN Val(cache[ip]).value ELSE 0

\* cache.set(rate_key, v, 3600) at time t: the entry lives for Window seconds from t.
CacheSet(ip, v, t) == [cache EXCEPT ![ip] = Some([ value |-> v, expires |-> t + Window ])]

\* Mutant of RateExceeded: the limit itself is still admitted.
RateExceededAbove(current) == current > RateLimit

\* if current_requests >= 100
RateExceeded(current) == current >= RateLimit

\* The history of the requests of an IP: a request that finds no live counter
\* starts an hour; the later ones are numbered from it (RateLimit + 1 stands
\* for every later number).
RateLogAfter(ip) ==
    IF CacheGet(ip, now) = 0 \/ rateLog[ip] = Null
    THEN Some([ first |-> now, n |-> 1 ])
    ELSE Some([ first |-> Val(rateLog[ip]).first,
                n |-> IF Val(rateLog[ip]).n > RateLimit THEN RateLimit + 1
                      ELSE Val(rateLog[ip]).n + 1 ])

\* process_request for a request that no other request interleaves with; api:
\* whether request.path starts with '/api/'.
ProcessRequest(ip, api) ==
    /\ \A w \in Workers : rl_req[w].pc = "idle"
    /\ IF ~api
       THEN /\ lastOp' = [ op |-> "request", ip |-> ip, api |-> FALSE, status |-> 200 ]
            /\ UNCHANGED <<cache, rateLog>>
       ELSE /\ rateLog' = [rateLog EXCEPT ![ip] = RateLogAfter(ip)]
            /\ IF RateExceeded(CacheGet(ip, now))
               THEN /\ lastOp' = [ op |-> "request", ip |-> ip, api |-> TRUE,
                                   status |-> 429 ]
                    /\ UNCHANGED cache
               ELSE /\ lastOp' = [ op |-> "request", ip |-> ip, api |-> TRUE,
                                   status |-> 200 ]
                    /\ cache' = CacheSet(ip, CacheGet(ip, now) + 1, now)
    /\ UNCHANGED <<now, licenses, plans, grants, att, lic_copy, sub_copy, pauseLog>>
    /\ UNCHANGED <<opLog, lastReq, applications, sessions, init_req, rl_req, vpn_cache, blacklists>>

\* process_request of concurrent requests, first part: cache.get and the test.
RateLimitGet(w, ip) ==
    /\ rl_req[w].pc = "idle"
    /\ IF RateExceeded(CacheGet(ip, now))
       THEN /\ lastOp' = [ op |-> "request", ip |-> ip, api |-> TRUE, status |-> 429 ]
            /\ UNCHANGED rl_req
       ELSE /\ lastOp' = [ op |-> "rate_get" ]
            /\ rl_req' = [rl_req EXCEPT ![w] =
                  [ pc |-> "set", ip |-> ip, current |-> CacheGet(ip, now) ]]
    /\ UNCHANGED <<now, licenses, plans, grants, att, lic_copy, sub_copy, pauseLog>>
    /\ UNCHANGED <<opLog, lastReq, applications, sessions, init_req, cache, rateLog, vpn_cache, blacklists>>

\* Second part: cache.set(rate_key, current_requests + 1, 3600); the request
\* is admitted.
RateLimitSet(w) ==
    /\ rl_req[w].pc = "set"
    /\ cache' = CacheSet(rl_req[w].ip, rl_req[w].current + 1, now)
    /\ lastOp' = [ op |-> "request", ip |-> rl_req[w].ip, api |-> TRUE, status |-> 200 ]
    /\ rl_req' = [rl_req EXCEPT ![w] = IdleWorker]
    /\ UNCHANGED <<now, licenses, plans, grants, att, lic_copy, sub_copy, pauseLog>>
    /\ UNCHANGED <<opLog, lastReq, applications, sessions, init_req, rateLog, vpn_cache, blacklists>>

\* Half a window passes.
Elapse ==
    /\ now < MaxHalfWindows * (Window \div 2)
    /\ now' = now + (Window \div 2)
    /\ lastOp' = [ op |-> "elapse" ]
    /\ UNCHANGED <<licenses, plans, grants, att, lic_copy, sub_copy, pauseLog>>
    /\ UNCHANGED <<opLog, lastReq, authVars>>

---------------------------------------------------------------------------
(* apps/core/utils.py: generate_license_key; license generation *)

\* The characters secrets.choice draws from, cut down to three of the 36 of
\* string.ascii_uppercase + string.digits.
Alphabet == {"A", "Z", "7"}

\* The masks of the model, as sequences of characters.
Masks == { <<"K", "-", "*">> }

\* The characters of the masks of the shape checks: the wildcard, the dash,
\* a letter of the alphabet and a letter outside it.
MaskChars == {"*", "-", "A", "x"}

\* Every mask of at most MaxMaskLen characters.
ShapeMasks == UNION { [1..n -> MaskChars] : n \in 0..MaxMaskLen }

\* Mutant of IsWildcard: the dash is replaced by a random character too.
IsWildcardOrDash(char) == char \in {"*", "-"}

\* `if char == '*'`
IsWildcard(char) == char = "*"

\* The number of '*' in a mask.
RECURSIVE Stars(_)
Stars(mask) ==
    IF mask = <<>> THEN 0
    ELSE (IF IsWildcard(Head(mask)) THEN 1 ELSE 0) + Stars(Tail(mask))

\* generate_license_key(mask), draws being the characters secrets.choice
\* returns, in order: '*' becomes the next draw, any other character is copied.
RECURSIVE GenerateLicenseKey(_, _)
GenerateLicenseKey(mask, draws) ==
    IF mask = <<>> THEN ""
    ELSE IF IsWildcard(Head(mask))
         THEN Head(draws) \o GenerateLicenseKey(Tail(mask), Tail(draws))
         ELSE Head(mask) \o GenerateLicenseKey(Tail(mask), draws)

\* One call of generate_license_key(mask).
GenerateKeyCall(mask, draws) ==
    /\ lastOp' = [ op |-> "generate_license_key", mask |-> mask,
                   key |-> GenerateLicenseKey(mask, draws) ]
    /\ UNCHANGED <<now, licenses, plans, grants, att, lic_copy, sub_copy, pauseLog>>
    /\ UNCHANGED <<opLog, lastReq, authVars>>

\* Every key generate_license_key(mask) can return.
KeysOfMask(mask) ==
    { GenerateLicenseKey(mask, d) : d \in [1..Stars(mask) -> Alphabet] }

\* The keys an application holds.
KeysOf(app) == { id[2] : id \in { i \in DOMAIN licenses : i[1] = app } }

\* Mutant of KeyTaken: a generated key is never compared with the others.
KeyTakenNever(app, key, made) == FALSE

\* The collision test of generate: the key is one of the application, stored
\* or made earlier in this call.
KeyTaken(app, key, made) == key \in KeysOf(app) \cup made

\* unique_together = ['key', 'application']: the INSERT of a key the
\* application holds raises IntegrityError.
LicenseInsertFails(app, key, made) == key \in KeysOf(app) \cup made

\* generate(application, mask, level, expires_seconds, count): each key is
\* drawn with generate_license_key (first: the first draw), drawn again
\* while it collides (made: the draw the loop ends with), and inserted.
Generate(app, mask, d, count) ==
    /\ Cardinality(KeysOfMask(mask) \ KeysOf(app)) >= count
    /\ \E first \in [1..count -> KeysOfMask(mask)], made \in [1..count -> KeysOfMask(mask)] :
          LET earlier(k) == { made[j] : j \in 1..(k - 1) }
              fails == { k \in 1..count : LicenseInsertFails(app, made[k], earlier(k)) }
              stored == IF fails = {} THEN count
                        ELSE (CHOOSE k \in fails : \A j \in fails : k <= j) - 1
          IN /\ \A k \in 1..count :
                   /\ ~KeyTaken(app, first[k], earlier(k)) => made[k] = first[k]
                   /\ ~KeyTaken(app, made[k], earlier(k))
             /\ licenses' = [ id \in DOMAIN licenses \cup { <<app, made[k]>> : k \in 1..stored } |->
                                IF id \in DOMAIN licenses THEN licenses[id] ELSE NewLicense(d) ]
             /\ lastOp' = [ op |-> "generate_keys", app |-> app, mask |-> mask, count |-> count,
                            result |-> IF fails = {} THEN "ok" ELSE "IntegrityError",
                            keys |-> [k \in 1..stored |-> made[k]],
                            redrawn |-> (first # made) ]
    /\ UNCHANGED <<now, plans, grants, att, lic_copy, sub_copy, pauseLog>>
    /\ UNCHANGED <<opLog, lastReq, authVars>>

---------------------------------------------------------------------------
(* apps/api/utils.py: encrypt_data, decrypt_data *)
(*                                                                         *)
(* A str is the sequence of its code points and a bytes object the         *)
(* sequence of its bytes.  A function that raises yields Null, one that    *)
(* returns v yields <<v>>.  The library's SHA-256 and AES-CBC are taken by *)
(* what the code relies on: a digest is a function of the encoded string,  *)
(* the cipher a keyed, chained, length-preserving bijection on whole       *)
(* blocks that refuses any other length.                                   *)

\* n copies of v.
Rep(v, n) == [i \in 1..n |-> v]

\* The sum of a sequence of numbers.
RECURSIVE Sum(_)
Sum(seq) == IF seq = <<>> THEN 0 ELSE Head(seq) + Sum(Tail(seq))

\* str.encode() of one character: its UTF-8 bytes.
Utf8Char(cp) ==
    IF cp < 128 THEN <<cp>>
    ELSE IF cp < 2048 THEN <<192 + (cp \div 64), 128 + (cp % 64)>>
    ELSE IF cp < 65536
         THEN <<224 + (cp \div 4096), 128 + ((cp \div 64) % 64), 128 + (cp % 64)>>
    ELSE <<240 + (cp \div 262144), 128 + ((cp \div 4096) % 64),
           128 + ((cp \div 64) % 64), 128 + (cp % 64)>>

\* str.encode()
RECURSIVE Encode(_)
Encode(str) ==
    IF str = <<>> THEN <<>> ELSE Utf8Char(Head(str)) \o Encode(Tail(str))

\* The length of the UTF-8 form a lead byte announces, 0 for a byte that
\* cannot lead.
Utf8Width(b) ==
    IF b < 128 THEN 1
    ELSE IF b \in 194..223 THEN 2
    ELSE IF b \in 224..239 THEN 3
    ELSE IF b \in 240..244 THEN 4
    ELSE 0

\* The bytes b, rest[1..] are one well-formed UTF-8 form of width n.
Utf8WellFormed(b, follow, n) ==
    /\ n > 0
    /\ Len(follow) >= n - 1
    /\ \A i \in 1..(n - 1) : follow[i] \in 128..191
    /\ (b = 224) => follow[1] >= 160
    /\ (b = 237) => follow[1] <= 159
    /\ (b = 240) => follow[1] >= 144
    /\ (b = 244) => follow[1] <= 143

\* The code point of one well-formed UTF-8 form.
Utf8CodePoint(b, follow, n) ==
    IF n = 1 THEN b
    ELSE IF n = 2 THEN (b - 192) * 64 + (follow[1] - 128)
    ELSE IF n = 3 THEN (b - 224) * 4096 + (follow[1] - 128) * 64 + (follow[2] - 128)
    ELSE (b - 240) * 262144 + (follow[1] - 128) * 4096
            + (follow[2] - 128) * 64 + (follow[3] - 128)

\* bytes.decode(): the str, or Null where it raises UnicodeDecodeError.
RECURSIVE Decode(_)
Decode(bytes) ==
    IF bytes = <<>> THEN Some(<<>>)
    ELSE LET b == Head(bytes)
             follow == Tail(bytes)
             n == Utf8Width(b)
         IN IF ~Utf8WellFormed(b, follow, n) THEN Null
            ELSE LET rest == Decode(SubSeq(bytes, n + 1, Len(bytes)))
                 IN IF rest = Null THEN Null
                    ELSE Some(<<Utf8CodePoint(b, follow, n)>> \o Val(rest))

\* hashlib.sha256(s.encode()).digest()[:n]: a function of the encoded
\* string, here a checksum of one byte.
Digest(str) == (Sum(Encode(str)) + 31 * Len(Encode(str))) % 256

\* encryptor.update(data) + encryptor.finalize() of AES in CBC mode without
\* padding: raises unless the data is whole blocks; each byte is chained to
\* the byte one block earlier, the first block to the IV.
CbcEncrypt(data, key_hash, iv_hash) ==
    IF Len(data) % BlockSize # 0 THEN Null
    ELSE LET enc[i \in 1..Len(data)] ==
                 (data[i] + (IF i <= BlockSize THEN iv_hash ELSE enc[i - BlockSize])
                     + key_hash) % 256
         IN Some([i \in 1..Len(data) |-> enc[i]])

\* decryptor.update(data) + decryptor.finalize(): the inverse, raising
\* unless the data is whole blocks.
CbcDecrypt(data, key_hash, iv_hash) ==
    IF Len(data) % BlockSize # 0 THEN Null
    ELSE Some([i \in 1..Len(data) |->
                 (data[i] + 512 - (IF i <= BlockSize THEN iv_hash ELSE data[i - BlockSize])
                     - key_hash) % 256])

\* One hexadecimal digit of binascii.hexlify, as a code point.
HexDigit(n) == IF n < 10 THEN 48 + n ELSE 87 + n

\* binascii.hexlify(bytes).decode()
Hexlify(bytes) ==
    [i \in 1..(2 * Len(bytes)) |->
        HexDigit(IF i % 2 = 1 THEN bytes[(i + 1) \div 2] \div 16
                 ELSE bytes[i \div 2] % 16)]

\* The value of a hexadecimal digit, -1 for any other character.
HexValue(cp) ==
    IF cp \in 48..57 THEN cp - 48
    ELSE IF cp \in 97..102 THEN cp - 87
    ELSE IF cp \in 65..70 THEN cp - 55
    ELSE -1

\* binascii.unhexlify(str): raises on an odd length and on a character that
\* is no hexadecimal digit.
Unhexlify(str) ==
    IF Len(str) % 2 # 0 \/ \E i \in 1..Len(str) : HexValue(str[i]) = -1 THEN Null
    ELSE Some([i \in 1..(Len(str) \div 2) |->
                 16 * HexValue(str[2 * i - 1]) + HexValue(str[2 * i])])

\* encrypt_data(data, key, iv): the hex string, or Null where it raises.
EncryptData(data, key, iv) ==
    LET key_hash == Digest(key)
        iv_hash == Digest(iv)
        padding_length == BlockSize - (Len(data) % BlockSize)
        padded_data == data \o Rep(padding_length, padding_length)
        encrypted == CbcEncrypt(Encode(padded_data), key_hash, iv_hash)
    IN IF encrypted = Null THEN Null ELSE Some(Hexlify(Val(encrypted)))

\* decrypted[:-padding_length]
StripPadding(decrypted, padding_length) ==
    IF padding_length = 0 THEN <<>>
    ELSE SubSeq(decrypted, 1, Len(decrypted) - padding_length)

\* decrypt_data(encrypted_data, key, iv): the str, or Null for None; every
\* exception of the body is caught and gives None.
DecryptData(encrypted_data, key, iv) ==
    LET key_hash == Digest(key)
        iv_hash == Digest(iv)
        encrypted_bytes == Unhexlify(encrypted_data)
    IN IF encrypted_bytes = Null THEN Null
       ELSE LET decrypted == CbcDecrypt(Val(encrypted_bytes), key_hash, iv_hash)
            IN IF decrypted = Null THEN Null
               ELSE IF Val(decrypted) = <<>> THEN Null
               ELSE LET padding_length == Val(decrypted)[Len(Val(decrypted))]
                    IN Decode(StripPadding(Val(decrypted), padding_length))

\* The plaintexts: runs of 'a' of every length up to MaxPlainLen, alone or
\* after one character of two or of three bytes, and one block of two-byte
\* characters.
Plaintexts ==
    { pre \o Rep(97, n) : pre \in {<<>>, <<233>>, <<8364>>}, n \in 0..MaxPlainLen }
        \cup { Rep(233, BlockSize) }

\* The key and IV strings: empty, ASCII, and with a character of two bytes.
SecretStrings == { <<>>, <<107, 49>>, <<233>> }

\* One call of encrypt_data and, where it returned, of decrypt_data on its
\* result with the same key and IV.
EncryptDecrypt(data, key, iv) ==
    /\ LET encrypted == EncryptData(data, key, iv)
       IN lastOp' = [ op |-> "encrypt", data |-> data, key |-> key, iv |-> iv,
                      encrypted |-> encrypted,
                      decrypted |-> IF encrypted = Null THEN Null
                                    ELSE DecryptData(Val(encrypted), key, iv) ]
    /\ UNCHANGED <<now, licenses, plans, grants, att, lic_copy, sub_copy, pauseLog>>
    /\ UNCHANGED <<opLog, lastReq, authVars>>

\* The byte strings a payload decrypts to: well padded ones, and ones whose
\* final byte is 0, is above the block size, or disagrees with the bytes
\* before it; one that is no UTF-8 under a good padding.
CraftedBlocks ==
    { Rep(97, 15) \o <<1>>, Rep(16, 16), Rep(97, 16) \o Rep(16, 16),
      Rep(97, 15) \o <<0>>, Rep(97, 15) \o <<17>>, Rep(97, 15) \o <<200>>,
      Rep(97, 13) \o <<7, 3, 3>>, Rep(97, 14) \o <<7, 2>>,
      <<255>> \o Rep(15, 15) }

\* The payloads presented to decrypt_data under key and iv: no hex, hex of
\* an odd length, the empty string, hex of bytes that are not whole blocks,
\* and the encryption of each crafted byte string.
Payloads(key, iv) ==
    { <<122, 122>>, <<97, 98, 99>>, <<>>, Hexlify(Rep(1, 5)), Hexlify(Rep(1, 17)) }
        \cup { Hexlify(Val(CbcEncrypt(d, Digest(key), Digest(iv)))) : d \in CraftedBlocks }

\* One call of decrypt_data.
DecryptCall(payload, key, iv) ==
    /\ lastOp' = [ op |-> "decrypt", encrypted |-> payload, key |-> key, iv |-> iv,
                   decrypted |-> DecryptData(payload, key, iv) ]
    /\ UNCHANGED <<now, licenses, plans, grants, att, lic_copy, sub_copy, pauseLog>>
    /\ UNCHANGED <<opLog, lastReq, authVars>>

---------------------------------------------------------------------------
(* apps/api/utils.py: check_user_blacklist *)

\* The HWIDs on file and on blacklist entries: none (NULL), blank, or a value.
Hwids == { Null, Some(""), Some("H1"), Some("H2") }

\* The rows the blacklists table may hold: an entry of an application carries
\* an IP, an HWID or both.
BlacklistEntries ==
    { e \in [ app : Apps, hwid : Hwids \ {Some("H2")}, ip_address : {Null, Some("ip1")} ] :
        e.ip_address # Null \/ TruthyStr(e.hwid) }

\* filter(application=application).filter(Q(hwid=user.hwid) |
\* Q(ip_address=ip_address)) on one row.  An exact lookup against None is
\* IS NULL, against a string is equality, so either is equality of the
\* nullable values.
BlacklistMatches(e, user_hwid, app, ip_address) ==
    /\ e.app = app
    /\ \/ e.hwid = user_hwid
       \/ e.ip_address = Some(ip_address)

\* check_user_blacklist(user, application, ip_address), user_hwid being
\* user.hwid: blacklists.exists()
CheckUserBlacklist(user_hwid, app, ip_address) ==
    /\ lastOp' = [ op |-> "check_blacklist", hwid |-> user_hwid, app |-> app,
                   ip |-> ip_address,
                   result |-> \E e \in blacklists :
                                 BlacklistMatches(e, user_hwid, app, ip_address) ]
    /\ UNCHANGED <<now, licenses, plans, grants, att, lic_copy, sub_copy, pauseLog>>
    /\ UNCHANGED <<opLog, lastReq, authVars>>

---------------------------------------------------------------------------
(* The clock *)

Tick ==
    /\ now < MaxTime
    /\ now' = now + 1
    /\ lastOp' = [ op |-> "tick" ]
    /\ UNCHANGED <<licenses, plans, grants, att, lic_copy, sub_copy, pauseLog>>
    /\ UNCHANGED <<opLog, lastReq, authVars>>

---------------------------------------------------------------------------
(* Specifications *)

PlansOf(apps) == { p \in PlanUniverse : p.app \in apps }

\* No session, no request in flight, no rate-limit entry.
InitAuth ==
    /\ sessions = <<>>
    /\ init_req = [c \in Clients |-> IdleInit]
    /\ cache = [ip \in IPs |-> Null]
    /\ rl_req = [w \in Workers |-> IdleWorker]
    /\ rateLog = [ip \in IPs |-> Null]
    /\ vpn_cache = [ip \in IPs |-> Null]
    /\ blacklists = {}

InitStore(ids, ds) ==
    /\ now = 0
    /\ \E d \in ds : licenses = [id \in ids |-> NewLicense(d)]
    /\ plans \in { ps \in SUBSET PlansOf({id[1] : id \in ids}) : UniqueTogether(ps) }
    /\ grants = <<>>
    /\ att = [a \in Attempts |-> IdleAttempt]
    /\ lic_copy = [h \in AdminHandles |-> Null]
    /\ pauseLog = <<>>
    /\ lastOp = NoOp
    /\ lastReq = Null
    /\ opLog = <<>>
    /\ InitAuth

InitWith(ids, ds) ==
    /\ InitStore(ids, ds)
    /\ sub_copy = [h \in SubHandles |-> Null]
    /\ applications = [a \in Apps |-> DefaultApplication]

\* Concurrent redemptions only.
NextConsume ==
    \/ \E a \in Attempts, app \in Apps, key \in KeyStrings :
          ConsumeLookup(a, app, key)
    \/ \E a \in Attempts : ConsumeCommit(a)

\* One application holds the key K1; the other application holds no key.
InitLedger == InitWith({<<"A", "K1">>}, {MaxDuration})

SpecConsume == InitLedger /\ [][NextConsume]_vars

\* The license ledger: redemptions interleaved with ban and unban.
NextLedger ==
    \/ \E a \in Attempts, app \in Apps, key \in KeyStrings :
          ConsumeLookup(a, app, key)
    \/ \E a \in Attempts : ConsumeCommit(a)
    \/ \E h \in AdminHandles, id \in LicenseIds : LoadLicense(h, id)
    \/ \E h \in AdminHandles, r \in Reasons : Ban(h, r)
    \/ \E h \in AdminHandles : Unban(h)

SpecLedger == InitLedger /\ [][NextLedger]_vars

\* Grants made by create_user_subscription for the licenses of two
\* applications, while time passes.
NextGrant ==
    \/ \E u \in Users, id \in LicenseIds :
          CreateUserSubscription(u, id) /\ UNCHANGED opLog
    \/ Tick

InitGrant == InitWith(LicenseIds, Durations)

SpecGrant == InitGrant /\ [][NextGrant]_vars

\* The subscription tracker: it follows one grant from its creation by
\* create_user_subscription; the grant is paused and resumed through loaded
\* instances while time passes.  (A method writes only its own row.)
TrackedGrant(user, id) ==
    grants = <<>> /\ CreateUserSubscription(user, id) /\ UNCHANGED opLog

NextTracker ==
    \/ \E u \in Users, id \in LicenseIds : TrackedGrant(u, id)
    \/ \E h \in SubHandles, i \in 1..MaxGrants : LoadSub(h, i)
    \/ \E h \in SubHandles : Pause(h) /\ UNCHANGED opLog
    \/ \E h \in SubHandles : Unpause(h) /\ UNCHANGED opLog
    \/ \E h \in SubHandles : ReadTimeRemaining(h)
    \/ Tick

InitTracker == InitWith({<<"A", "K1">>}, Durations)

SpecTracker == InitTracker /\ [][NextTracker]_vars

\* Concurrent pause / unpause on one grant, each caller holding its own loaded
\* instance.  The history opLog keeps the grant as created, then every call
\* with the instant it was made at.
LogGrant ==
    opLog' = IF grants' # grants
             THEN <<[ kind |-> "grant", t |-> now, row |-> grants'[1] ]>>
             ELSE opLog

LogCall(kind) ==
    /\ opLog # <<>>
    /\ Len(opLog) <= MaxOps
    /\ opLog' = Append(opLog, [ kind |-> kind, t |-> now ])

NextRace ==
    \/ \E u \in Users, id \in LicenseIds :
          grants = <<>> /\ CreateUserSubscription(u, id) /\ LogGrant
    \/ \E h \in Racers : LoadSub(h, 1)
    \/ \E h \in Racers : Pause(h) /\ LogCall("pause")
    \/ \E h \in Racers : Unpause(h) /\ LogCall("unpause")
    \/ Tick

InitRace ==
    /\ InitStore({<<"A", "K1">>}, {MaxDuration})
    /\ sub_copy = [h \in Racers |-> Null]
    /\ applications = [a \in Apps |-> DefaultApplication]

SpecRace == InitRace /\ [][NextRace]_vars

\* Session creation: concurrent init requests while time passes.
\* Application A has any of the configurations without a flag, hash or VPN
\* check, application B the default one; the hash and the VPN verdict of a
\* request are then not looked at, so the requests leave them out.
NextInit ==
    \/ \E c \in Clients :
          \E req \in { r \in InitRequests(c) : r.hash = Null /\ r.lookup = "clean" } :
             HandleInitBegin(c, req) /\ UNCHANGED lastReq
    \/ \E c \in Clients : HandleInitInsert(c)
    \/ Tick

InitInit ==
    /\ InitStore({<<"A", "K1">>}, {MaxDuration})
    /\ plans = {}
    /\ sub_copy = [h \in SubHandles |-> Null]
    /\ \E cfg \in { x \in AppConfigs : /\ x.is_enabled /\ ~x.is_banned /\ ~x.is_paused
                                       /\ ~x.hash_check_enabled /\ ~x.vpn_block_enabled } :
          applications = [a \in Apps |-> IF a = "A" THEN cfg ELSE DefaultApplication]

SpecInit == InitInit /\ [][NextInit]_vars

\* The two entry points of init and the dispatch, for requests made one
\* after the other; application A has any of the configurations.
NextGate ==
    \/ \E raw \in PostRequests(1) : Post(1, raw)
    \/ HandleInitInsert(1)
    \/ \E raw \in { r \in PostRequests(1) : r.type = Some("init") } : InitializePost(raw)

InitGateway ==
    /\ InitStore({<<"A", "K1">>}, {MaxDuration})
    /\ plans = {}
    /\ sub_copy = [h \in SubHandles |-> Null]
    /\ \E cfg \in AppConfigs :
          applications = [a \in Apps |-> IF a = "A" THEN cfg ELSE DefaultApplication]

SpecGate == InitGateway /\ [][NextGate]_vars

\* Calls of generate_license_key, over every mask and every outcome of the draws.
NextMask ==
    \E mask \in ShapeMasks : \E draws \in [1..Stars(mask) -> Alphabet] :
       GenerateKeyCall(mask, draws)

InitMask == InitWith({}, {MaxDuration})

SpecMask == InitMask /\ [][NextMask]_vars

\* The payload codec, one call in each behaviour (the functions keep no
\* state): an encryption followed by its decryption, or the decryption of a
\* presented payload, made for the key used or for another.
NextCrypto ==
    /\ lastOp = NoOp
    /\ \/ \E data \in Plaintexts, key \in SecretStrings, iv \in SecretStrings :
             EncryptDecrypt(data, key, iv)
       \/ \E key \in SecretStrings, iv \in SecretStrings, made \in SecretStrings :
             \E payload \in Payloads(made, iv) : DecryptCall(payload, key, iv)

InitCrypto == InitWith({}, {MaxDuration})

SpecCrypto == InitCrypto /\ [][NextCrypto]_vars

\* Blacklist checks against a table of up to MaxEntries entries.
NextBlacklist ==
    \E user_hwid \in Hwids, app \in Apps, ip \in IPs :
       CheckUserBlacklist(user_hwid, app, ip)

InitBlacklist ==
    /\ now = 0
    /\ licenses = [id \in {} |-> NewLicense(MaxDuration)]
    /\ plans = {}
    /\ grants = <<>>
    /\ att = [a \in Attempts |-> IdleAttempt]
    /\ lic_copy = [h \in AdminHandles |-> Null]
    /\ sub_copy = [h \in SubHandles |-> Null]
    /\ pauseLog = <<>>
    /\ lastOp = NoOp
    /\ lastReq = Null
    /\ opLog = <<>>
    /\ applications = [a \in Apps |-> DefaultApplication]
    /\ sessions = <<>>
    /\ init_req = [c \in Clients |-> IdleInit]
    /\ cache = [ip \in IPs |-> Null]
    /\ rl_req = [w \in Workers |-> IdleWorker]
    /\ rateLog = [ip \in IPs |-> Null]
    /\ vpn_cache = [ip \in IPs |-> Null]
    /\ blacklists \in { t \in SUBSET BlacklistEntries : Cardinality(t) <= MaxEntries }

SpecBlacklist == InitBlacklist /\ [][NextBlacklist]_vars

\* The ledger and the tracker are untouched.
LedgerIdle ==
    /\ grants = <<>>
    /\ \A a \in Attempts : att[a].pc = "idle"
    /\ \A h \in AdminHandles : lic_copy[h] = Null

\* The session manager is untouched.
SessionsIdle == sessions = <<>> /\ \A c \in Clients : init_req[c].pc = "idle"

\* Two tenants side by side: both applications hold the key K1.  Keys are
\* redeemed, banned and unbanned and grants listed for either application,
\* or sessions are issued and validated for either; the two halves share no
\* row, so a behaviour runs one of them.
NextTenant ==
    \/ /\ SessionsIdle
       /\ \/ \E app \in Apps : ConsumeLookup(1, app, "K1")
          \/ ConsumeCommit(1)
          \/ \E id \in LicenseIds : LoadLicense(1, id)
          \/ Ban(1, "License banned")
          \/ Unban(1)
          \/ \E app \in Apps : GetUserSubscriptions("u1", app)
    \/ /\ LedgerIdle
       /\ \/ \E req \in { r \in InitRequests(1) : /\ r.app # Null /\ r.ver = Null
                                                  /\ r.hash = Null /\ r.lookup = "clean" } :
                HandleInitBegin(1, req) /\ UNCHANGED lastReq
          \/ HandleInitInsert(1)
          \/ \E sid \in SessionIds, app \in Apps : ValidateSession(sid, app)

\* Each application has its plan at the level of the keys, or none; the
\* plans of the two differ in name.
InitTenant ==
    /\ InitWith(LicenseIds, {MaxDuration})
    /\ plans \subseteq { p \in PlanUniverse :
                            p.level = "1" /\ (p.app = "A" => p.name = "P2") }

SpecTenant == InitTenant /\ [][NextTenant]_vars

\* License generation for two applications, one call after the other.
NextGenerate ==
    \E app \in Apps, mask \in Masks, d \in {MaxDuration}, count \in 1..MaxCount :
       Generate(app, mask, d, count)

InitGenerate == InitWith({<<"A", "K1">>}, {MaxDuration})

SpecGenerate == InitGenerate /\ [][NextGenerate]_vars

\* The VPN gate while time passes: calls of check_vpn_proxy for any address,
\* and init requests of client 1 for application A, which blocks VPNs, made
\* while the table holds no session.
NextVpn ==
    \/ \E ip \in IPs, lookup \in VpnLookups : CheckVpnProxy(ip, lookup)
    \/ \E raw \in { r \in PostRequests(1) :
                      /\ r.type = Some("init") /\ r.found = Some("A")
                      /\ ValidateParams(r) = "lookup" } :
          sessions = <<>> /\ Post(1, raw)
    \/ HandleInitInsert(1)
    \/ Elapse

InitVpn ==
    /\ InitStore({<<"A", "K1">>}, {MaxDuration})
    /\ plans = {}
    /\ sub_copy = [h \in SubHandles |-> Null]
    /\ applications = [a \in Apps |->
          IF a = "A" THEN [DefaultApplication EXCEPT !.vpn_block_enabled = TRUE]
          ELSE DefaultApplication]

SpecVpn == InitVpn /\ [][NextVpn]_vars

\* The session manager: the sessions that the init requests of one client
\* create are validated and bound while time passes.
NextSession ==
    \/ \E req \in InitRequests(1) : HandleInitBegin(1, req) /\ UNCHANGED lastReq
    \/ HandleInitInsert(1)
    \/ \E sid \in SessionIds, a \in Apps : ValidateSession(sid, a)
    \/ \E sid \in SessionIds, cred \in Credentials : Bind(sid, cred)
    \/ Tick

InitSession ==
    /\ InitStore({<<"A", "K1">>}, {MaxDuration})
    /\ plans = {}
    /\ sub_copy = [h \in SubHandles |-> Null]
    /\ \E e \in 1..MaxDuration :
          applications = [a \in Apps |->
              IF a = "A" THEN [DefaultApplication EXCEPT !.session_expiry_seconds = e]
              ELSE DefaultApplication]

SpecSession == InitSession /\ [][NextSession]_vars

\* The rate limiter under sequential requests of one IP, while time passes.
NextRate ==
    \/ \E api \in BOOLEAN : ProcessRequest("ip1", api)
    \/ Elapse

InitRate ==
    /\ InitStore({<<"A", "K1">>}, {MaxDuration})
    /\ plans = {}
    /\ sub_copy = [h \in SubHandles |-> Null]
    /\ applications = [a \in Apps |-> DefaultApplication]

SpecRate == InitRate /\ [][NextRate]_vars

\* The rate limiter under concurrent requests of the IP ip1 within one
\* window, after ip1 has made RateLimit - MaxHeadroom requests one after the
\* other at time 0.
NextRateRace ==
    \/ \E w \in Workers : RateLimitGet(w, "ip1")
    \/ \E w \in Workers : RateLimitSet(w)

InitRateRace ==
    /\ now = 0
    /\ licenses = [id \in {<<"A", "K1">>} |-> NewLicense(MaxDuration)]
    /\ plans = {}
    /\ grants = <<>>
    /\ att = [a \in Attempts |-> IdleAttempt]
    /\ lic_copy = [h \in AdminHandles |-> Null]
    /\ sub_copy = [h \in SubHandles |-> Null]
    /\ pauseLog = <<>>
    /\ lastOp = NoOp
    /\ lastReq = Null
    /\ opLog = <<>>
    /\ applications = [a \in Apps |-> DefaultApplication]
    /\ sessions = <<>>
    /\ init_req = [c \in Clients |-> IdleInit]
    /\ cache = [ip \in IPs |->
          IF ip = "ip1"
          THEN Some([ value |-> RateLimit - MaxHeadroom, expires |-> Window ])
          ELSE Null]
    /\ rl_req = [w \in Workers |-> IdleWorker]
    /\ rateLog = [ip \in IPs |-> Null]
    /\ vpn_cache = [ip \in IPs |-> Null]
    /\ blacklists = {}

SpecRateRace == InitRateRace /\ [][NextRateRace]_vars

\* Listing: grants of two users in two applications are created, paused,
\* resumed and listed while time passes.
NextList ==
    \/ \E u \in Users, id \in LicenseIds :
          CreateUserSubscription(u, id) /\ UNCHANGED opLog
    \/ \E h \in SubHandles, i \in 1..MaxGrants : LoadSub(h, i)
    \/ \E h \in SubHandles : Pause(h) /\ UNCHANGED opLog
    \/ \E h \in SubHandles : Unpause(h) /\ UNCHANGED opLog
    \/ \E u \in Users, a \in Apps : GetUserSubscriptions(u, a)
    \/ Tick

\* Every application has one plan, at the level of its licenses.
InitList ==
    /\ InitWith(LicenseIds, {MaxDuration})
    /\ plans = { p \in PlanUniverse : p.name = "P1" /\ p.level = "1" }

SpecList == InitList /\ [][NextList]_vars

---------------------------------------------------------------------------
(* Properties of the license ledger *)

Consumed(id) == licenses[id].used_by # Null

\* C1: across concurrent redemptions of one key, at most one succeeds: a
\* redemption succeeds only on a key that no redemption has succeeded on, and
\* every redemption that ends after a success on its key ends AlreadyUsed.
C1_AtMostOneConsumeSucceeds ==
    [][ \A id \in DOMAIN licenses :
          (lastOp'.op \in {"lookup", "commit"} /\ lastOp'.id = id
              /\ lastOp'.result # "none")
          => /\ lastOp'.result = "Success" => GrantsOf(id) = {}
             /\ GrantsOf(id) # {} => lastOp'.result = "AlreadyUsed"
             /\ Cardinality({ i \in 1..Len(grants') :
                    grants'[i].app = id[1] /\ grants'[i].license_key = id[2] }) <= 1
      ]_vars

\* C1 witness: a redemption that passed the lookup while the key was NOT_USED
\* lost the check-and-set to a concurrent one and ended AlreadyUsed.
C1_Witness ==
    /\ lastOp.op = "commit"
    /\ lastOp.result = "AlreadyUsed"
    /\ GrantsOf(lastOp.id) # {}

\* C2: a license is USED only if a grant with its key exists, and no key
\* has more than one grant.
C2_UsedOnlyWithOneGrant ==
    \A id \in DOMAIN licenses :
        /\ licenses[id].status = USED => GrantsOf(id) # {}
        /\ Cardinality(GrantsOf(id)) <= 1

C4_ConsumedNeverNotUsed ==
    \A id \in DOMAIN licenses : Consumed(id) => licenses[id].status # NOT_USED

\* C5: unban sets USED when the license's used_by is populated and NOT_USED
\* otherwise, and clears ban_reason; a redemption right after the unban ends
\* AlreadyUsed on a key with used_by set, and succeeds on a key without
\* (where the application has one plan at the license's level).
C5_UnbanThenConsume ==
    [][ \A id \in DOMAIN licenses :
          /\ (lastOp'.op = "unban" /\ lastOp'.id = id)
             => /\ licenses'[id].status = IF Consumed(id) THEN USED ELSE NOT_USED
                /\ licenses'[id].ban_reason = Null
          /\ (lastOp'.op = "lookup" /\ lastOp'.id = id /\ lastOp'.afterUnban)
             => lastOp'.result = IF Consumed(id) THEN "AlreadyUsed" ELSE "none"
          /\ (lastOp'.op = "commit" /\ lastOp'.id = id /\ lastOp'.afterUnban
                /\ ~Consumed(id)
                /\ GetPlanOutcome(id[1], licenses[id].level) = "created")
             => lastOp'.result = "Success"
      ]_vars

---------------------------------------------------------------------------
(* Properties of the subscription tracker *)

\* C6: create_user_subscription creates nothing and reports the missing plan
\* when the application has no plan at the license's level; otherwise it
\* creates exactly one grant for that user, application and plan, with
\* expires_at = now + expires_seconds and the license key.
C6_GrantCreatesOne ==
    [][ lastOp'.op = "grant" =>
          LET id == lastOp'.id
              lic == licenses[id]
              ps == PlansFor(id[1], lic.level)
          IN IF ps = {}
             THEN grants' = grants /\ lastOp'.outcome = "no_plan"
             ELSE /\ Len(grants') = Len(grants) + 1
                  /\ SubSeq(grants', 1, Len(grants)) = grants
                  /\ LET g == grants'[Len(grants')] IN
                       /\ g.user = lastOp'.user
                       /\ g.app = id[1]
                       /\ g.plan \in { p.name : p \in ps }
                       /\ g.expires_at = now + lic.expires_seconds
                       /\ g.license_key = id[2]
      ]_vars

Running(g) == ~g.is_paused /\ g.expires_at > now
PausedStored(g) == g.is_paused /\ g.paused_time_remaining # Null

\* C7 as stated: every grant is either running with expires_at in the
\* future or paused with a stored remaining duration, never both, never neither.
C7_ExactlyOneOfRunningPaused ==
    \A i \in 1..Len(grants) :
        /\ Running(grants[i]) \/ PausedStored(grants[i])
        /\ ~(Running(grants[i]) /\ PausedStored(grants[i]))

\* C7 as amended: a remaining duration is stored exactly while the grant is
\* paused, so a grant is never both running and holding a snapshot (it may be
\* neither: not paused and past expires_at).
C7_SnapshotIffPaused ==
    \A i \in 1..Len(grants) :
        grants[i].is_paused <=> grants[i].paused_time_remaining # Null

\* C7 witness: a grant has been paused while expires_at was in the future,
\* then resumed, and has since run out.
C7_Witness ==
    \E i \in 1..Len(grants) :
        /\ pauseLog[i] # Null
        /\ ~grants[i].is_paused
        /\ grants[i].expires_at <= now

\* C8: pause changes nothing when the grant is already paused or already
\* expired; otherwise it stores expires_at - now and sets is_paused, and
\* leaves expires_at alone (now: some instant of the call).
C8_PauseEffect ==
    [][ \A h \in SubHandles :
          (lastOp'.op = "pause" /\ lastOp'.h = h) =>
          LET c == Val(sub_copy[h]) IN
          \E n \in now..now' :
             IF c.is_paused \/ c.expires_at <= n
             THEN sub_copy' = sub_copy /\ grants' = grants
             ELSE /\ sub_copy'[h] = Some([c EXCEPT
                        !.paused_time_remaining = Some(c.expires_at - n),
                        !.is_paused = TRUE])
                  /\ grants' = [grants EXCEPT
                        ![c.idx].paused_time_remaining = Some(c.expires_at - n),
                        ![c.idx].is_paused = TRUE]
      ]_vars

\* C9: unpause changes nothing unless the grant is paused; on every paused
\* grant it sets expires_at = now + paused_time_remaining, clears is_paused
\* and clears paused_time_remaining.
C9_UnpauseEffect ==
    [][ \A h \in SubHandles :
          (lastOp'.op = "unpause" /\ lastOp'.h = h) =>
          LET c == Val(sub_copy[h]) IN
             IF c.is_paused
             THEN /\ c.paused_time_remaining # Null
                  /\ LET e == now + Val(c.paused_time_remaining) IN
                     /\ sub_copy'[h] = Some([c EXCEPT !.expires_at = e,
                            !.is_paused = FALSE, !.paused_time_remaining = Null])
                     /\ grants' = [grants EXCEPT ![c.idx].expires_at = e,
                            ![c.idx].is_paused = FALSE,
                            ![c.idx].paused_time_remaining = Null]
             ELSE sub_copy' = sub_copy /\ grants' = grants
      ]_vars

\* The instance agrees with its row.
Fresh(c) ==
    /\ c.expires_at = grants[c.idx].expires_at
    /\ c.is_paused = grants[c.idx].is_paused
    /\ c.paused_time_remaining = grants[c.idx].paused_time_remaining

\* C10: for a grant that was active when paused at t1 and is unpaused at t2,
\* expires_at after the unpause is t2 + (expires_at before - t1), within one second.
C10_PauseUnpauseRoundTrip ==
    [][ \A h \in SubHandles :
          (lastOp'.op = "unpause" /\ lastOp'.h = h) =>
          LET c == Val(sub_copy[h]) IN
             (Fresh(c) /\ c.is_paused /\ pauseLog[c.idx] # Null) =>
             LET p == Val(pauseLog[c.idx])
                 d == grants'[c.idx].expires_at - (now + (p.exp - p.t))
             IN d \in -1..1
      ]_vars

\* C11: time_remaining returns the stored snapshot whenever the grant is
\* paused, and max(0, expires_at - now) whenever it is not (now: some instant
\* of the call); the value it returns is never negative.
C11_TimeRemainingContract ==
    [][ \A h \in SubHandles :
          (lastOp'.op = "time_remaining" /\ lastOp'.h = h) =>
          LET c == Val(sub_copy[h])
              r == lastOp'.result
          IN /\ r >= 0
             /\ IF c.is_paused
                THEN c.paused_time_remaining # Null /\ r = Val(c.paused_time_remaining)
                ELSE \E n \in now..now' :
                        r = IF c.expires_at > n THEN c.expires_at - n ELSE 0
      ]_vars

\* C12: list_active(user, application) returns exactly the grants of that
\* user and application that are active (not paused, expires_at > now) at the
\* instant of the call, and each entry reports a non-negative remaining time
\* and the grant's license key.
C12_ListActiveExact ==
    [][ lastOp'.op = "list" =>
          LET rows == lastOp'.rows
              res == lastOp'.result
          IN /\ { rows[k] : k \in 1..Len(rows) } =
                   { i \in 1..Len(grants) :
                        /\ grants[i].user = lastOp'.user
                        /\ grants[i].app = lastOp'.app
                        /\ ~grants[i].is_paused
                        /\ grants[i].expires_at > now }
             /\ Len(res) = Len(rows)
             /\ \A k \in 1..Len(rows) :
                   /\ \A j \in 1..Len(rows) : rows[j] = rows[k] => j = k
                   /\ res[k].timeleft >= 0
                   /\ res[k].key = grants[rows[k]].license_key
      ]_vars

\* The three columns that pause and unpause write.
PauseState(g) ==
    [ expires_at |-> g.expires_at, is_paused |-> g.is_paused,
      paused_time_remaining |-> g.paused_time_remaining ]

\* The rows a call made at o.t can leave when it runs alone on row r (its
\* later clock reads are any instants from o.t on).
SerialStep(r, o) ==
    IF o.kind = "pause"
    THEN IF PauseActs(r, o.t)
         THEN UNION { { PauseCopy(r, t2, t3) : t3 \in t2..MaxTime } : t2 \in o.t..MaxTime }
         ELSE { r }
    ELSE IF UnpauseActs(r) THEN { UnpauseCopy(r, o.t) } ELSE { r }

\* The rows left by running the calls ops[ord[1]], ops[ord[2]], ... one after
\* the other, starting from any row of rs.
RECURSIVE SerialRun(_, _, _)
SerialRun(rs, ops, ord) ==
    IF ord = <<>> THEN rs
    ELSE SerialRun(UNION { SerialStep(r, ops[Head(ord)]) : r \in rs }, ops, Tail(ord))

Orders(n) == { f \in [1..n -> 1..n] : \A i, j \in 1..n : f[i] = f[j] => i = j }

\* C13: pause and unpause are atomic per grant: after any interleaving of
\* concurrent pause and unpause calls, each on its own loaded instance, the
\* grant's expires_at, is_paused and paused_time_remaining equal those left
\* by some serial order of the same calls.
C13_PauseUnpauseSerializable ==
    opLog # <<>> =>
       LET ops == Tail(opLog) IN
       \E ord \in Orders(Len(ops)) :
          PauseState(grants[1]) \in SerialRun({ PauseState(opLog[1].row) }, ops, ord)

---------------------------------------------------------------------------
(* Properties of the session manager *)

\* C14: validate_session never returns a session whose expires_at <= now,
\* validated or not, the instant now = expires_at included.
C14_ValidateNeverExpired ==
    [][ (lastOp'.op = "validate" /\ lastOp'.outcome = "session")
          => Val(lastOp'.session).expires_at > now' ]_vars

\* C14 witness: a validated session was looked up under its own application
\* at the instant now = expires_at, and was not returned.
C14_Witness ==
    /\ lastOp.op = "validate"
    /\ lastOp.outcome = "none"
    /\ \E i \in 1..Len(sessions) :
          /\ sessions[i].session_id = lastOp.sid
          /\ sessions[i].app = lastOp.app
          /\ sessions[i].is_validated
          /\ sessions[i].expires_at = now

\* The session stored under an id, if any (ids are unique).
StoredUnder(sid) == { i \in 1..Len(sessions) : sessions[i].session_id = sid }

\* C15: validate_session returns a session only if it was issued for the
\* application asked about; for an expired session, a session of another
\* application and an id that does not exist it returns the same value, None.
C15_ValidateScopedAndUniform ==
    [][ lastOp'.op = "validate" =>
          /\ lastOp'.outcome = "session" =>
                /\ Val(lastOp'.session).app = lastOp'.app
                /\ Val(lastOp'.session).session_id = lastOp'.sid
          /\ ( \/ StoredUnder(lastOp'.sid) = {}
               \/ \E i \in StoredUnder(lastOp'.sid) :
                     sessions[i].app # lastOp'.app \/ sessions[i].expires_at <= now )
             => (lastOp'.outcome = "none" /\ lastOp'.session = Null)
      ]_vars

\* C15 witness: a session that has not expired was looked up under the other
\* application, and None was returned.
C15_Witness ==
    /\ lastOp.op = "validate"
    /\ lastOp.outcome = "none"
    /\ \E i \in StoredUnder(lastOp.sid) :
          sessions[i].app # lastOp.app /\ sessions[i].expires_at > now

\* C16: a validated session stays validated with the same credential in
\* every later state; binding it again is accepted with the same credential
\* and rejected with a different one.
C16_ValidationOneWay ==
    [][ /\ \A i \in 1..Len(sessions) :
             sessions[i].is_validated =>
                /\ Len(sessions') >= i
                /\ sessions'[i].session_id = sessions[i].session_id
                /\ sessions'[i].is_validated
                /\ sessions'[i].credential = sessions[i].credential
        /\ lastOp'.op = "bind" =>
             \A i \in StoredUnder(lastOp'.sid) :
                sessions[i].is_validated =>
                   (lastOp'.result = "bound" <=> sessions[i].credential = Some(lastOp'.cred))
      ]_vars

\* C16 witness: a validated session was bound again, to a different
\* credential, and the bind was rejected.
C16_Witness ==
    /\ lastOp.op = "bind"
    /\ lastOp.result = "rejected"
    /\ \E i \in StoredUnder(lastOp.sid) :
          sessions[i].is_validated /\ sessions[i].credential # Some(lastOp.cred)

\* C17: under concurrent session creations no two sessions share a
\* session_id, and no creation fails on a collision of its identifier: it
\* regenerates and retries.
C17_CreationRetriesNeverFails ==
    [][ /\ \A i, j \in 1..Len(sessions') :
             sessions'[i].session_id = sessions'[j].session_id => i = j
        /\ lastOp'.op = "init" => lastOp'.result # "IntegrityError"
      ]_vars

---------------------------------------------------------------------------
(* Properties of the rate limiter *)

\* C19: for requests made one after the other from one IP to the API, within
\* one hour of the first, requests 1 through 100 are admitted and the 101st
\* and every later one is rejected with HTTP 429.
C19_HundredAdmittedThenRejected ==
    [][ \A ip \in IPs :
          (lastOp'.op = "request" /\ lastOp'.ip = ip /\ lastOp'.api) =>
             LET h == Val(rateLog'[ip]) IN
             (now' - h.first < Window) =>
                lastOp'.status = IF h.n <= RateLimit THEN 200 ELSE 429
      ]_vars

\* C19 witness: the 101st request of an hour has been rejected, after time
\* has passed within that hour.
C19_Witness ==
    /\ lastOp.op = "request"
    /\ lastOp.api
    /\ lastOp.status = 429
    /\ rateLog[lastOp.ip] # Null
    /\ Val(rateLog[lastOp.ip]).n = RateLimit + 1
    /\ CacheGet(lastOp.ip, now) = RateLimit
    /\ now > Val(rateLog[lastOp.ip]).first
    /\ now - Val(rateLog[lastOp.ip]).first < Window

\* C20: the counter is updated atomically: under concurrent requests of one
\* IP within one window every admitted request raises the counter by one, so
\* no increment is lost and at most 100 requests are admitted.
C20_NoLostIncrement ==
    [][ \A ip \in IPs :
          (lastOp'.op = "request" /\ lastOp'.ip = ip /\ lastOp'.api
              /\ lastOp'.status = 200) =>
             /\ CacheGet(ip, now)' = CacheGet(ip, now) + 1
             /\ CacheGet(ip, now)' <= RateLimit
      ]_vars

\* C21: the window is fixed per (endpoint group, IP): after a counted request
\* the counter of its scope expires one hour after the first counted request
\* of the window (the request that found no live counter), later requests do
\* not postpone the expiry, and the counter of no other scope changes.
C21_FixedWindow ==
    [][ \A ip \in IPs :
          (lastOp'.op = "request" /\ lastOp'.ip = ip /\ lastOp'.api
              /\ lastOp'.status = 200) =>
             /\ Val(cache'[ip]).expires = Val(rateLog'[ip]).first + Window
             /\ \A other \in IPs \ {ip} : cache'[other] = cache[other]
      ]_vars

\* C24: the dedicated init endpoint accepts a request exactly when the
\* type-dispatched init handler would: it too rejects a disabled or paused
\* application, a version or hash mismatch and a blocked VPN address.
C24_InitializeSamePrelude ==
    [][ lastOp'.op = "initialize" =>
          LET raw == Val(lastReq') IN
          lastOp'.response.success <=>
             (ValidateParams(raw) = "lookup" /\ InitGate(ReqOf(raw)) = "ok")
      ]_vars

\* C22: init touches no state before the prelude has passed: a request goes
\* on to create a session only if the application resolved, is not banned,
\* is enabled, is not paused, and the version, hash and VPN gates passed; an
\* init that fails a step leaves the sessions and every other table as they
\* were; and a session appears only through a request that passed.
C22_NoStateBeforePrelude ==
    [][ /\ (init_req[1].pc = "idle" /\ lastOp'.op \in {"init", "generate"}) =>
             LET raw == Val(lastReq')
                 passes ==
                   /\ TruthyStr(raw.ownerid) /\ TruthyStr(raw.name)
                   /\ Len(Val(raw.ownerid)) = 10
                   /\ raw.found # Null
                   /\ LET app == applications[Val(raw.found)] IN
                        /\ ~app.is_banned /\ app.is_enabled /\ ~app.is_paused
                        /\ (TruthyStr(raw.ver) => Val(raw.ver) = app.current_version)
                        /\ (app.hash_check_enabled /\ TruthyStr(raw.hash)
                               /\ TruthyStr(app.file_hash))
                             => Contains(Val(app.file_hash), Val(raw.hash))
                        /\ app.vpn_block_enabled =>
                             (~CheckVpnResult(raw.ip, raw.lookup, now) \/ raw.whitelisted)
             IN IF passes
                THEN init_req'[1].pc = "insert" /\ init_req'[1].app = Val(raw.found)
                ELSE /\ lastOp'.op = "init" /\ ~lastOp'.response.success
                     /\ UNCHANGED <<sessions, init_req, applications, licenses,
                                    plans, grants>>
        /\ sessions' # sessions =>
             /\ init_req[1].pc = "insert"
             /\ sessions' = Append(sessions, NewSession(init_req[1]))
      ]_vars

\* C22 witness: a session exists, and the last init failed a step of the
\* prelude after the resolution.
C22_Witness ==
    /\ Len(sessions) >= 1
    /\ lastOp.op = "init"
    /\ lastOp.result \in {"app_disabled_msg", "paused_app_msg", "invalidver",
                          "hash_check_fail_msg", "vpn_blocked_msg"}

\* C23: the prelude runs in the order resolution, banned / disabled /
\* paused, version, hash, VPN: a request with well-formed parameters that
\* fails several checks is answered for the earliest failing step; banned,
\* disabled and paused each answer with a message of their own; a version
\* mismatch carries the download URL.
C23_PreludeOrder ==
    [][ (init_req[1].pc = "idle" /\ lastOp'.op \in {"init", "generate"}
            /\ ValidateParams(Val(lastReq')) = "lookup") =>
          LET raw == Val(lastReq')
              app == applications[Val(raw.found)]
              banned == "This application has been banned from HexAUTH for violating terms."
              disabled == "This application is disabled"
              paused == "Application is currently paused, please wait for the developer to say otherwise."
              step1 == raw.found = Null
              step2 == app.is_banned \/ ~app.is_enabled \/ app.is_paused
              step3 == TruthyStr(raw.ver) /\ Val(raw.ver) # app.current_version
              step4 == /\ app.hash_check_enabled
                       /\ TruthyStr(raw.hash) /\ TruthyStr(app.file_hash)
                       /\ ~Contains(Val(app.file_hash), Val(raw.hash))
              step5 == /\ app.vpn_block_enabled
                       /\ CheckVpnResult(raw.ip, raw.lookup, now)
                       /\ ~raw.whitelisted
              r == lastOp'.response
          IN  /\ banned # disabled /\ banned # paused /\ disabled # paused
              /\ IF step1 THEN lastOp'.op = "init" /\ r.message = "HexAUTH_Invalid"
                 ELSE IF step2
                 THEN /\ lastOp'.op = "init"
                      /\ r.message \in {banned, disabled, paused}
                      /\ r.message = banned => app.is_banned
                      /\ r.message = disabled => ~app.is_enabled
                      /\ r.message = paused => app.is_paused
                 ELSE IF step3
                 THEN /\ lastOp'.op = "init"
                      /\ r.message = "invalidver"
                      /\ r.download = app.download_url
                 ELSE IF step4
                 THEN /\ lastOp'.op = "init"
                      /\ r.message = "This program hash does not match, make sure you're using latest version"
                 ELSE IF step5
                 THEN /\ lastOp'.op = "init"
                      /\ r.message = "VPNs are blocked on this application"
                 ELSE lastOp'.op = "generate"
      ]_vars

\* C23 witness: a request that fails the version, the hash and the VPN check
\* was answered with the version mismatch.
C23_Witness ==
    /\ lastOp.op = "init"
    /\ lastOp.result = "invalidver"
    /\ lastReq # Null
    /\ Val(lastReq).found = Some("A")
    /\ applications["A"].hash_check_enabled
    /\ applications["A"].vpn_block_enabled
    /\ Val(lastReq).hash = Some("h2")
    /\ Val(lastReq).lookup = "proxy"
    /\ ~Val(lastReq).whitelisted

\* C25: an init request whose ownerid is not exactly 10 characters long
\* (a missing or empty one included) is answered with a validation failure,
\* HTTP 400, whose content depends on ownerid and name alone: the application
\* is not looked up, so it is the same whether or not an application with
\* that owner id and name exists; nothing is written.
C25_MalformedOwnerFailsFast ==
    [][ (lastReq' # Null /\ lastOp'.op \in {"init", "generate", "initialize"}
            /\ ~(init_req[1].pc = "insert" /\ init_req'[1].pc = "idle")) =>
          LET raw == Val(lastReq')
              malformed == ~TruthyStr(raw.ownerid) \/ Len(Val(raw.ownerid)) # 10
              expected ==
                 IF ~TruthyStr(raw.ownerid)
                 THEN "No OwnerID specified. Select app & copy code snippet from HexAUTH dashboard."
                 ELSE IF ~TruthyStr(raw.name)
                 THEN "No app name specified. Select app & copy code snippet from HexAUTH dashboard."
                 ELSE "OwnerID should be 10 characters long."
          IN malformed =>
               /\ lastOp'.op \in {"init", "initialize"}
               /\ lastOp'.response =
                    [ status |-> 400, kind |-> "json", success |-> FALSE,
                      message |-> expected, download |-> Null ]
               /\ UNCHANGED <<sessions, init_req, vpn_cache>>
      ]_vars

\* C25 witness: a request with a 5-character ownerid under which an
\* application exists was rejected for the length.
C25_Witness ==
    /\ lastReq # Null
    /\ Val(lastReq).ownerid = Some("a1b2c")
    /\ Val(lastReq).name = Some("myapp")
    /\ Val(lastReq).found = Some("A")
    /\ lastOp.op = "init"
    /\ lastOp.response.message = "OwnerID should be 10 characters long."

\* C26 as stated: a request whose type tag is not in the dispatch table is
\* answered with the UnhandledType failure (success false, HTTP 400) and
\* changes no state; a request whose tag is in the table is passed to the
\* handler registered for that tag.
C26_UnknownTagUnhandled ==
    [][ (lastReq' # Null /\ lastOp'.op # "initialize"
            /\ ~(init_req[1].pc = "insert" /\ init_req'[1].pc = "idle")
            /\ Val(lastReq').type # Null) =>
          LET tag == Val(Val(lastReq').type) IN
          IF tag \notin DOMAIN Handlers
          THEN /\ lastOp'.op = "post"
               /\ lastOp'.response = [ status |-> 400, kind |-> "json", success |-> FALSE,
                                       message |-> "Unhandled Type", download |-> Null ]
               /\ UNCHANGED <<sessions, init_req, vpn_cache, licenses, plans, grants>>
          ELSE (IF lastOp'.op \in {"init", "generate"} THEN "handle_init"
                ELSE Val(lastOp'.handler)) = Handlers[tag]
      ]_vars

\* C26 amended: a request whose type tag is not empty and not in the
\* dispatch table is answered with the UnhandledType failure, one whose tag
\* is missing or empty with the failure "No type specified"; both are
\* success false, HTTP 400, and change no state; a request whose tag is in
\* the table is passed to the handler registered for that tag.
C26_UnknownOrMissingTag ==
    [][ (lastReq' # Null /\ lastOp'.op # "initialize"
            /\ ~(init_req[1].pc = "insert" /\ init_req'[1].pc = "idle")) =>
          LET type == Val(lastReq').type IN
          IF type = Null \/ type = Some("") \/ Val(type) \notin DOMAIN Handlers
          THEN /\ lastOp'.op = "post"
               /\ lastOp'.response =
                    [ status |-> 400, kind |-> "json", success |-> FALSE,
                      message |-> IF type = Null \/ type = Some("")
                                  THEN "No type specified" ELSE "Unhandled Type",
                      download |-> Null ]
               /\ UNCHANGED <<sessions, init_req, vpn_cache, licenses, plans, grants>>
          ELSE (IF lastOp'.op \in {"init", "generate"} THEN "handle_init"
                ELSE Val(lastOp'.handler)) = Handlers[Val(type)]
      ]_vars

\* C26 witness: a tag that differs from a registered one by case only was
\* answered Unhandled Type while a session existed.
C26_Witness ==
    /\ lastReq # Null
    /\ Val(lastReq).type = Some("Init")
    /\ lastOp.op = "post"
    /\ lastOp.response.message = "Unhandled Type"
    /\ Len(sessions) >= 1

\* C27: every request to the type-dispatched endpoint, whatever its tag and
\* input, ends in a structured response, a body with a boolean success and
\* a message; none ends in an unhandled error or an empty result.
C27_AlwaysStructured ==
    [][ lastOp'.op \in {"post", "init"} =>
          /\ lastOp'.response.kind = "json"
          /\ lastOp'.response.success \in BOOLEAN
          /\ lastOp'.response.status \in {200, 400}
      ]_vars

\* C28: an init with a well-formed owner id and a name that resolves to no
\* application is answered HTTP 400 with a structured body, success false
\* and a generic invalid-application message, and creates no session.
C28_UnknownAppStructured ==
    [][ (init_req[1].pc = "idle" /\ lastOp'.op \in {"init", "generate"}
            /\ ValidateParams(Val(lastReq')) = "lookup"
            /\ Val(lastReq').found = Null) =>
          /\ lastOp'.op = "init"
          /\ lastOp'.response.status = 400
          /\ lastOp'.response.kind = "json"
          /\ ~lastOp'.response.success
          /\ UNCHANGED <<sessions, init_req>>
      ]_vars

\* C29: the VPN check fails open: when the lookup errors, times out or
\* answers with a non-success status, check_vpn_proxy returns false, stores
\* nothing, and the VPN gate does not deny the request; a verdict obtained
\* from a successful lookup is stored for the IP and returned, without a new
\* lookup, to every call for that IP within the cache interval.
C29_VpnFailOpen ==
    [][ /\ lastOp'.op = "check_vpn" =>
             LET ip == lastOp'.ip
                 live == vpn_cache[ip] # Null /\ now < Val(vpn_cache[ip]).expires
             IN IF live
                THEN /\ ~lastOp'.looked_up
                     /\ lastOp'.result = Val(vpn_cache[ip]).value
                     /\ vpn_cache' = vpn_cache
                ELSE /\ lastOp'.looked_up
                     /\ IF lastOp'.lookup \in {"status", "raise"}
                        THEN /\ lastOp'.result = FALSE
                             /\ vpn_cache' = vpn_cache
                        ELSE /\ lastOp'.result = (lastOp'.lookup = "proxy")
                             /\ vpn_cache' = [vpn_cache EXCEPT ![ip] =
                                   Some([ value |-> lastOp'.result,
                                          expires |-> now + 3600 ])]
        /\ (init_req[1].pc = "idle" /\ lastOp'.op \in {"init", "generate"}) =>
             LET raw == Val(lastReq')
                 live == vpn_cache[raw.ip] # Null /\ now < Val(vpn_cache[raw.ip]).expires
             IN (~live /\ raw.lookup \in {"status", "raise"}) =>
                   /\ lastOp'.op = "init" => lastOp'.result # "vpn_blocked_msg"
                   /\ vpn_cache' = vpn_cache
      ]_vars

\* C29 witness: a verdict had been stored for an IP and has expired, the new
\* lookup for that IP failed, and the call returned false.
C29_Witness ==
    /\ lastOp.op = "check_vpn"
    /\ lastOp.lookup \in {"status", "raise"}
    /\ lastOp.looked_up
    /\ ~lastOp.result
    /\ vpn_cache[lastOp.ip] # Null
    /\ Val(vpn_cache[lastOp.ip]).value
    /\ Val(vpn_cache[lastOp.ip]).expires <= now

\* C30: a generate call of count keys ends with count keys stored for the
\* application, pairwise distinct and none of them a key the application
\* held before; a draw that collides is drawn again, and every other row,
\* of this application or another, is left as it was.
C30_GenerateDistinct ==
    [][lastOp'.op = "generate_keys" =>
         LET op == lastOp'
             new == { op.keys[k] : k \in 1..Len(op.keys) }
         IN /\ op.result = "ok"
            /\ Len(op.keys) = op.count
            /\ \A j, k \in 1..Len(op.keys) : j # k => op.keys[j] # op.keys[k]
            /\ new \cap KeysOf(op.app) = {}
            /\ DOMAIN licenses' = DOMAIN licenses \cup { <<op.app, key>> : key \in new }
            /\ \A id \in DOMAIN licenses : licenses'[id] = licenses[id]]_vars

\* A call of two keys where a first draw collided and was drawn again, while
\* the other application holds one of the keys made.
C30_Witness ==
    /\ lastOp # Null
    /\ lastOp.op = "generate_keys"
    /\ lastOp.result = "ok"
    /\ lastOp.count = MaxCount
    /\ lastOp.redrawn
    /\ \E other \in Apps \ {lastOp.app}, k \in 1..Len(lastOp.keys) :
          <<other, lastOp.keys[k]>> \in DOMAIN licenses

\* C31: the key generate_license_key makes of a mask has the mask's length;
\* where the mask holds a character other than '*' the key holds that
\* character, and where the mask holds '*' the key holds a character of the
\* alphabet.
C31_MaskShape ==
    (lastOp.op = "generate_license_key") =>
        LET mask == lastOp.mask
            key == lastOp.key
        IN /\ Len(key) = Len(mask)
           /\ \A i \in 1..Len(mask) :
                 IF mask[i] = "*" THEN SubSeq(key, i, i) \in Alphabet
                 ELSE SubSeq(key, i, i) = mask[i]

\* A mask of full length with a wildcard, a dash and a letter that is copied,
\* expanded to a key whose wildcard position differs from the copied letter.
C31_Witness ==
    /\ lastOp.op = "generate_license_key"
    /\ lastOp.mask = <<"*", "-", "A">>
    /\ lastOp.key = "7-A"

\* The bytes of a payload under a key and an IV end in a valid padding: the
\* payload is hex of one or more whole blocks, and the final byte of their
\* decryption is a length from 1 to the block size that every one of the
\* final bytes, as many as it tells, equals.
ValidPayload(encrypted, key, iv) ==
    /\ Unhexlify(encrypted) # Null
    /\ Val(Unhexlify(encrypted)) # <<>>
    /\ Len(Val(Unhexlify(encrypted))) % BlockSize = 0
    /\ LET d == Val(CbcDecrypt(Val(Unhexlify(encrypted)), Digest(key), Digest(iv)))
           pad == d[Len(d)]
       IN /\ pad \in 1..BlockSize
          /\ \A i \in (Len(d) - pad + 1)..Len(d) : d[i] = pad

\* C32: encrypt returns for every plaintext, key and IV, its result is hex
\* of a whole number of 16-byte blocks, and decrypt of that result under the
\* same key and IV returns the plaintext.
C32_DecryptInvertsEncrypt ==
    (lastOp.op = "encrypt") =>
        /\ lastOp.encrypted # Null
        /\ Len(Val(lastOp.encrypted)) % (2 * BlockSize) = 0
        /\ lastOp.decrypted = Some(lastOp.data)

\* C33: decrypt gives the decode-failure value for every payload that is no
\* hex, is not whole blocks, or decrypts to bytes without a valid padding.
C33_InvalidPayloadFails ==
    (lastOp.op = "decrypt" /\ ~ValidPayload(lastOp.encrypted, lastOp.key, lastOp.iv)) =>
        lastOp.decrypted = Null

\* C34: a blacklist check is true exactly when some entry of the same
\* application carries the presented HWID or the presented IP; a user with
\* no HWID on file is not matched through the HWID by an entry that carries
\* none, entries of other applications never match, and the check changes
\* no state.
C34_BlacklistedIff ==
    [][lastOp'.op = "check_blacklist" =>
         LET op == lastOp'
         IN /\ op.result =
                 (\E e \in blacklists :
                     /\ e.app = op.app
                     /\ \/ TruthyStr(op.hwid) /\ e.hwid = op.hwid
                        \/ e.ip_address = Some(op.ip))
            /\ UNCHANGED <<now, licenses, plans, grants, att, lic_copy, sub_copy,
                           pauseLog, lastReq, opLog, authVars>>]_vars

\* The rows of one application in the three tables.
LicensesOfApp(table, a) == [id \in { i \in DOMAIN table : i[1] = a } |-> table[id]]
GrantsOfApp(table, a) == SelectSeq(table, LAMBDA g : g.app = a)
SessionsOfApp(table, a) == SelectSeq(table, LAMBDA r : r.app = a)

\* C35: every operation is scoped by its application.  Every grant
\* references a plan of its own application; a listing for an application
\* returns grants of that application only; a session validates only under
\* the application that issued it; the key string that both applications
\* hold is redeemed, banned and unbanned in each on its own.  A step changes
\* rows of the operation's application at most, and the outcome of an
\* operation is what the rows of its own application determine.
C35_TenantIsolation ==
    [][LET op == lastOp'
           OwnPlans(a, level) == { p \in plans : p.app = a /\ p.level = level }
           Untouched(b) ==
               /\ LicensesOfApp(licenses', b) = LicensesOfApp(licenses, b)
               /\ GrantsOfApp(grants', b) = GrantsOfApp(grants, b)
               /\ SessionsOfApp(sessions', b) = SessionsOfApp(sessions, b)
       IN /\ plans' = plans
          /\ \A i \in 1..Len(grants') :
                \E p \in plans : p.app = grants'[i].app /\ p.name = grants'[i].plan
          /\ \E a \in Apps : \A b \in Apps \ {a} : Untouched(b)
          /\ op.op \in {"lookup", "commit", "ban", "unban"} =>
                \A b \in Apps \ {op.id[1]} : Untouched(b)
          /\ op.op = "lookup" => op.result = ConsumeReject(licenses[op.id].status)
          /\ op.op = "commit" =>
                op.result =
                   (LET lic == licenses[op.id]
                        own == OwnPlans(op.id[1], lic.level)
                    IN IF lic.status = BANNED THEN "Banned"
                       ELSE IF lic.status = USED THEN "AlreadyUsed"
                       ELSE IF own = {} THEN "NoPlanForLevel"
                       ELSE IF Cardinality(own) = 1 THEN "Success"
                       ELSE "Error")
          /\ op.op = "list" =>
                /\ \A b \in Apps : Untouched(b)
                /\ \A k \in 1..Len(op.rows) : grants[op.rows[k]].app = op.app
                /\ Len(op.rows) =
                      Len(SelectSeq(GrantsOfApp(grants, op.app),
                                    LAMBDA g : /\ g.user = op.user /\ ~g.is_paused
                                               /\ g.expires_at > now))
          /\ op.op = "validate" =>
                /\ \A b \in Apps : Untouched(b)
                /\ op.session # Null => Val(op.session).app = op.app
                /\ (op.outcome = "session") =
                      (\E i \in 1..Len(sessions) :
                          /\ sessions[i].app = op.app
                          /\ sessions[i].session_id = op.sid
                          /\ sessions[i].expires_at > now)
      ]_vars

\* The key K1 is banned in application A and redeemed in application B, whose
\* grant the user holds, and a listing for A of that user returns nothing.
C35_Witness ==
    /\ licenses[<<"A", "K1">>].status = BANNED
    /\ licenses[<<"B", "K1">>].status = USED
    /\ \E i \in 1..Len(grants) : grants[i].app = "B" /\ grants[i].user = "u1"
    /\ GrantsOfApp(grants, "A") = <<>>
    /\ lastOp.op = "list" /\ lastOp.app = "A" /\ lastOp.rows = <<>>

\* C36: at every instant the two expiry tests of a session agree: is_expired
\* is true exactly when validate_session finds no row for the session's own
\* id and application, and no validated session that is_active reports
\* active is rejected by validate_session.
C36_ExpiryTestsAgree ==
    \A i \in 1..Len(sessions) :
       LET row == sessions[i] IN
       /\ SessionIsExpired(row, now)
             = ~SessionMatches(row, row.session_id, row.app, now)
       /\ ~( /\ row.is_validated
             /\ SessionIsActive(row, now)
             /\ MatchingSessions(row.session_id, row.app, now) = {} )

\* C37: a paused grant always holds a strictly positive paused_time_remaining,
\* and unpause called on an instance that agrees with its paused row leaves
\* the grant not paused: no grant is stuck in the paused state.
C37_PausedCanResume ==
    [][ /\ \A i \in 1..Len(grants') :
              grants'[i].is_paused =>
                 /\ grants'[i].paused_time_remaining # Null
                 /\ Val(grants'[i].paused_time_remaining) > 0
        /\ \A h \in SubHandles :
              (lastOp'.op = "unpause" /\ lastOp'.h = h) =>
              LET c == Val(sub_copy[h]) IN
                 (Fresh(c) /\ c.is_paused) => ~grants'[c.idx].is_paused
      ]_vars

\* What is left of a grant at time t: its time_remaining, or nothing where
\* that is below zero.
EntitlementLeft(g, t) ==
    IF TimeRemaining(g, t, t) > 0 THEN TimeRemaining(g, t, t) ELSE 0

\* The time from t to u during which the grant g is active.
ActiveTime(g, t, u) ==
    IF g.is_paused \/ g.expires_at <= t THEN 0
    ELSE IF g.expires_at < u THEN g.expires_at - t ELSE u - t

\* C38: pausing never creates entitlement.  A grant starts with the duration
\* of its license; in every step of a run of pause, unpause and time passing,
\* the time the grant was active during the step plus what is left of it
\* afterwards is at most what was left before, so the active time never adds
\* up to more than the duration; and time_remaining never increases.
C38_NoEntitlementCreated ==
    [][ /\ \A i \in 1..Len(grants) :
              /\ EntitlementLeft(grants'[i], now') + ActiveTime(grants[i], now, now')
                    <= EntitlementLeft(grants[i], now)
              /\ TimeRemaining(grants'[i], now', now') <= TimeRemaining(grants[i], now, now)
        /\ \A i \in (Len(grants) + 1)..Len(grants') :
              EntitlementLeft(grants'[i], now') = licenses[lastOp'.id].expires_seconds
      ]_vars

\* C39: for every set of plans that is unique on (name, application),
\* create_user_subscription ends with (True, plan name), having created the
\* grant, or with (False, message), having created none; it never raises.
C39_GrantAlwaysReturns ==
    [][ lastOp'.op = "grant" =>
          \/ lastOp'.outcome = "created" /\ Len(grants') = Len(grants) + 1
          \/ lastOp'.outcome = "no_plan" /\ grants' = grants
      ]_vars

====
